---------------------------- MODULE Spec2Model ----------------------------
(***************************************************************************)
(* A model of rediserde: the RESP wire-tag registry (resp.rs), the encode  *)
(* engine (ser.rs) and the decode engine (de.rs).                          *)
(*                                                                         *)
(* Bytes are integers 0..255 and byte strings are sequences of them.  An   *)
(* integer value of any width is a sign and a magnitude kept as a sequence *)
(* of decimal digits, so that 64-bit boundaries are exact.  A Rust String  *)
(* is the sequence of its UTF-8 bytes.                                     *)
(***************************************************************************)
EXTENDS Integers, Sequences, FiniteSets, TLC

VARIABLES
    op,         \* the last call: "idle", "to_bytes", "from_bytes", "to_string",
                \* "from_str", "input" (from_bytes on a raw input), a lookup in
                \* the registry, a call on a LengthSeqVisitor, or a call on a
                \* Serializer
    shape,      \* index into Shapes of the shape of the value that was encoded
    value,      \* the value handed to to_bytes / to_string
    ser,        \* what to_bytes / to_string returned, with Serializer.output
    bytes,      \* the slice handed to from_bytes / from_str
    target,     \* index into Shapes of the shape from_bytes was asked for
    result,     \* what from_bytes returned, with Deserializer.input in rest
    access,     \* the LengthSeqVisitor a visitor holds: length and current
    open        \* the sequence or map that is open on the Serializer

vars == <<op, shape, value, ser, bytes, target, result, access, open>>

-----------------------------------------------------------------------------
(* Bytes and text                                                          *)

\* The characters the model writes, with their byte values.  "CR" and "LF"
\* are the two bytes of CRLF; "xC3", "xA9" (the two bytes of U+00E9), "xE2",
\* "x82", "xAC" (the three bytes of U+20AC) and "xFF" (never valid in UTF-8)
\* are bytes above the ASCII range.
Range(s) == {s[i] : i \in DOMAIN s}

AsciiTable ==
    << <<"CR", 13>>, <<"LF", 10>>, <<" ", 32>>, <<"!", 33>>, <<"#", 35>>,
       <<"$", 36>>, <<"%", 37>>, <<"(", 40>>, <<"*", 42>>, <<"+", 43>>,
       <<",", 44>>, <<"-", 45>>, <<".", 46>>, <<"0", 48>>, <<"1", 49>>,
       <<"2", 50>>, <<"3", 51>>, <<"4", 52>>, <<"5", 53>>, <<"6", 54>>,
       <<"7", 55>>, <<"8", 56>>, <<"9", 57>>, <<":", 58>>, <<"=", 61>>,
       <<">", 62>>, <<"?", 63>>, <<"A", 65>>, <<"B", 66>>, <<"E", 69>>,
       <<"N", 78>>, <<"S", 83>>, <<"T", 84>>, <<"U", 85>>, <<"Z", 90>>,
       <<"_", 95>>,
       <<"a", 97>>, <<"b", 98>>, <<"c", 99>>, <<"e", 101>>, <<"f", 102>>,
       <<"g", 103>>, <<"j", 106>>, <<"n", 110>>, <<"o", 111>>, <<"t", 116>>,
       <<"w", 119>>, <<"x", 120>>, <<"z", 122>>, <<"|", 124>>, <<"~", 126>>,
       <<"NUL", 0>>, <<"xC3", 195>>, <<"xA9", 169>>, <<"xE2", 226>>,
       <<"x82", 130>>, <<"xAC", 172>>, <<"xFF", 255>> >>

Ord(c) == (CHOOSE e \in Range(AsciiTable) : e[1] = c)[2]

\* The byte string spelled by a tuple of characters.
B(s) == [i \in 1..Len(s) |-> Ord(s[i])]

CRLF == B(<<"CR", "LF">>)

Take(s, n) == SubSeq(s, 1, n)
Drop(s, n) == SubSeq(s, n + 1, Len(s))

starts_with(s, p) == Len(s) >= Len(p) /\ Take(s, Len(p)) = p

NoneIdx == -1

\* Iterator::position: the 0-based index of the first element satisfying P.
position(s, P(_)) ==
    LET hits == {i \in 1..Len(s) : P(s[i])}
    IN  IF hits = {} THEN NoneIdx
        ELSE (CHOOSE i \in hits : \A j \in hits : i <= j) - 1

is_ascii_digit(b) == b >= 48 /\ b <= 57

VALID_NUMERIC_CHARS == B(<<"0","1","2","3","4","5","6","7","8","9","+","-",".","e","E">>)

Contains(s, b) == \E i \in 1..Len(s) : s[i] = b

\* String::from_utf8: whether a byte string is well-formed UTF-8.
IsCont(b) == b >= 128 /\ b <= 191

\* The length of the sequence a first byte announces, 0 for a byte that
\* cannot come first.
utf8_char_width(b) ==
    IF b < 128 THEN 1
    ELSE IF b >= 194 /\ b <= 223 THEN 2
    ELSE IF b >= 224 /\ b <= 239 THEN 3
    ELSE IF b >= 240 /\ b <= 244 THEN 4
    ELSE 0

\* Whether the bytes from s[i] on start with one well-formed sequence.
utf8_char_at(s, i) ==
    LET b0 == s[i]
        in(j, lo, hi) == Len(s) >= j /\ s[j] >= lo /\ s[j] <= hi
    IN  IF b0 < 128 THEN TRUE
        ELSE IF b0 >= 194 /\ b0 <= 223 THEN in(i + 1, 128, 191)
        ELSE IF b0 = 224 THEN in(i + 1, 160, 191) /\ in(i + 2, 128, 191)
        ELSE IF (b0 >= 225 /\ b0 <= 236) \/ b0 = 238 \/ b0 = 239
             THEN in(i + 1, 128, 191) /\ in(i + 2, 128, 191)
        ELSE IF b0 = 237 THEN in(i + 1, 128, 159) /\ in(i + 2, 128, 191)
        ELSE IF b0 = 240
             THEN in(i + 1, 144, 191) /\ in(i + 2, 128, 191) /\ in(i + 3, 128, 191)
        ELSE IF b0 >= 241 /\ b0 <= 243
             THEN in(i + 1, 128, 191) /\ in(i + 2, 128, 191) /\ in(i + 3, 128, 191)
        ELSE IF b0 = 244
             THEN in(i + 1, 128, 143) /\ in(i + 2, 128, 191) /\ in(i + 3, 128, 191)
        ELSE FALSE

\* Every byte either starts a well-formed sequence or continues the sequence
\* that a first byte, at most three bytes before it, announces.
utf8_valid(s) ==
    \A i \in 1..Len(s) :
        IF IsCont(s[i])
        THEN \E k \in 1..3 :
                /\ i - k >= 1
                /\ utf8_char_width(s[i - k]) > k
                /\ \A j \in (i - k + 1)..(i - 1) : IsCont(s[j])
        ELSE utf8_char_at(s, i)

-----------------------------------------------------------------------------
(* Decimal numbers of any size                                             *)

\* A magnitude is a sequence of digits 0..9 without leading zeros; zero is <<0>>.
RECURSIVE StripZeros(_)
StripZeros(d) ==
    IF Len(d) > 1 /\ d[1] = 0 THEN StripZeros(Drop(d, 1)) ELSE d

\* a <= b on magnitudes.
MagLE(a, b) ==
    \/ Len(a) < Len(b)
    \/ /\ Len(a) = Len(b)
       /\ \/ a = b
          \/ \E i \in 1..Len(a) :
                /\ a[i] < b[i]
                /\ \A j \in 1..(i - 1) : a[j] = b[j]

Reverse(s) == [i \in 1..Len(s) |-> s[Len(s) + 1 - i]]

\* A magnitude plus one.
RECURSIVE IncRev(_)
IncRev(r) ==
    IF r = <<>> THEN <<1>>
    ELSE IF r[1] < 9 THEN <<r[1] + 1>> \o Drop(r, 1)
    ELSE <<0>> \o IncRev(Drop(r, 1))

PlusOne(d) == Reverse(IncRev(Reverse(d)))

\* The magnitude of a small natural number, and back.
RECURSIVE NatMag(_)
NatMag(n) == IF n < 10 THEN <<n>> ELSE NatMag(n \div 10) \o <<n % 10>>

RECURSIVE MagNat(_)
MagNat(d) == IF d = <<>> THEN 0 ELSE 10 * MagNat(Take(d, Len(d) - 1)) + d[Len(d)]

\* The decimal text of a magnitude, and the digits of a text of digits.
MagText(d) == [i \in 1..Len(d) |-> d[i] + 48]
TextDigits(t) == [i \in 1..Len(t) |-> t[i] - 48]

-----------------------------------------------------------------------------
(* Rust's integer types                                                    *)

IntTypes == <<"i8", "i16", "i32", "i64", "isize", "u8", "u16", "u32", "u64", "usize",
              "i128", "u128">>

\* Width in bits; isize and usize are those of a 64-bit platform.
Bits == [i8 |-> 8, i16 |-> 16, i32 |-> 32, i64 |-> 64, isize |-> 64,
         u8 |-> 8, u16 |-> 16, u32 |-> 32, u64 |-> 64, usize |-> 64,
         i128 |-> 128, u128 |-> 128]

Signed == [i8 |-> TRUE, i16 |-> TRUE, i32 |-> TRUE, i64 |-> TRUE, isize |-> TRUE,
           u8 |-> FALSE, u16 |-> FALSE, u32 |-> FALSE, u64 |-> FALSE, usize |-> FALSE,
           i128 |-> TRUE, u128 |-> FALSE]

\* T::MAX for each width: 2^(w-1) - 1 for a signed type, 2^w - 1 for an unsigned.
SignedMax ==
    [w \in {8, 16, 32, 64, 128} |->
       CASE w = 8   -> <<1,2,7>>
         [] w = 16  -> <<3,2,7,6,7>>
         [] w = 32  -> <<2,1,4,7,4,8,3,6,4,7>>
         [] w = 64  -> <<9,2,2,3,3,7,2,0,3,6,8,5,4,7,7,5,8,0,7>>
         [] w = 128 -> <<1,7,0,1,4,1,1,8,3,4,6,0,4,6,9,2,3,1,7,3,1,6,8,7,3,0,3,7,1,5,
                         8,8,4,1,0,5,7,2,7>>]
UnsignedMax ==
    [w \in {8, 16, 32, 64, 128} |->
       CASE w = 8   -> <<2,5,5>>
         [] w = 16  -> <<6,5,5,3,5>>
         [] w = 32  -> <<4,2,9,4,9,6,7,2,9,5>>
         [] w = 64  -> <<1,8,4,4,6,7,4,4,0,7,3,7,0,9,5,5,1,6,1,5>>
         [] w = 128 -> <<3,4,0,2,8,2,3,6,6,9,2,0,9,3,8,4,6,3,4,6,3,3,7,4,6,0,7,4,3,1,
                         7,6,8,2,1,1,4,5,5>>]

\* T::MAX and the magnitude of T::MIN.
MaxMag == [ty \in DOMAIN Bits |->
             IF Signed[ty] THEN SignedMax[Bits[ty]] ELSE UnsignedMax[Bits[ty]]]
MinMag == [ty \in DOMAIN Bits |->
             IF Signed[ty] THEN PlusOne(SignedMax[Bits[ty]]) ELSE <<0>>]

\* An integer value: neg is FALSE for zero.
IntVal(neg, mag) == [neg |-> neg, mag |-> mag]

InRange(ty, v) ==
    IF v.neg THEN MagLE(v.mag, MinMag[ty]) ELSE MagLE(v.mag, MaxMag[ty])

\* A to_string that drops the sign.
int_to_string_unsigned(v) == MagText(v.mag)

\* <integer>::to_string: canonical decimal text.
int_to_string(v) == (IF v.neg THEN B(<<"-">>) ELSE <<>>) \o MagText(v.mag)

\* str::parse::<T> for an integer type T (core::num::from_str_radix, radix 10):
\* one optional '+', or '-' for a signed type, then one or more digits (leading
\* zeros allowed), and the value must be in T's range.  A lone sign, an empty
\* text, any other character, and '-' for an unsigned type are errors.
int_from_str(ty, text) ==
    LET plus   == Ord("+")
        minus  == Ord("-")
        sign   == IF Len(text) > 1 /\ text[1] = plus THEN "+"
                  ELSE IF Len(text) > 1 /\ text[1] = minus /\ Signed[ty] THEN "-"
                  ELSE ""
        digits == IF sign = "" THEN text ELSE Drop(text, 1)
        mag    == StripZeros(TextDigits(digits))
        v      == IntVal(sign = "-" /\ mag # <<0>>, mag)
        ok     == /\ digits # <<>>
                  /\ \A i \in 1..Len(digits) : is_ascii_digit(digits[i])
                  /\ (IF sign = "-" THEN MagLE(mag, MinMag[ty]) ELSE MagLE(mag, MaxMag[ty]))
    IN  IF ok THEN [ok |-> TRUE, val |-> v] ELSE [ok |-> FALSE, val |-> IntVal(FALSE, <<0>>)]

\* A float value is an exact decimal: mag * 10^exp with mag not ending in 0
\* (zero is mag <<0>>, exp 0).  This is exact for the short tokens the model
\* uses (fewer than 16 significant digits, exponents far from the f64 limits).
FloatVal(neg, mag, exp) == [neg |-> neg, mag |-> mag, exp |-> exp]

RECURSIVE NormFloat(_, _, _)
NormFloat(neg, mag, exp) ==
    IF mag = <<0>> THEN FloatVal(neg, <<0>>, 0)
    ELSE IF mag[Len(mag)] = 0 THEN NormFloat(neg, Take(mag, Len(mag) - 1), exp + 1)
    ELSE FloatVal(neg, mag, exp)

\* str::parse::<f64> on a text made of the characters 0-9 + - . e E:
\* [sign] digits [. digits] [(e|E) [sign] digits], with at least one digit in
\* the mantissa and at least one in a present exponent.
float_from_str(text) ==
    LET isSign(b) == b = Ord("+") \/ b = Ord("-")
        isE(b)    == b = Ord("e") \/ b = Ord("E")
        allDigits(t) == \A i \in 1..Len(t) : is_ascii_digit(t[i])
        neg    == text # <<>> /\ text[1] = Ord("-")
        body   == IF text # <<>> /\ isSign(text[1]) THEN Drop(text, 1) ELSE text
        ePos   == position(body, isE)
        mant   == IF ePos = NoneIdx THEN body ELSE Take(body, ePos)
        expT   == IF ePos = NoneIdx THEN <<>> ELSE Drop(body, ePos + 1)
        expNeg == expT # <<>> /\ expT[1] = Ord("-")
        expD   == IF expT # <<>> /\ isSign(expT[1]) THEN Drop(expT, 1) ELSE expT
        isDot(b) == b = Ord(".")
        dPos   == position(mant, isDot)
        ip     == IF dPos = NoneIdx THEN mant ELSE Take(mant, dPos)
        fp     == IF dPos = NoneIdx THEN <<>> ELSE Drop(mant, dPos + 1)
        ok     == /\ allDigits(ip) /\ allDigits(fp) /\ Len(ip) + Len(fp) > 0
                  /\ (ePos # NoneIdx => (expD # <<>> /\ allDigits(expD)))
        e10    == IF expD = <<>> THEN 0
                  ELSE (IF expNeg THEN -1 ELSE 1) * MagNat(TextDigits(expD))
    IN  IF ok
        THEN [ok |-> TRUE,
              val |-> NormFloat(neg, StripZeros(TextDigits(ip \o fp)), e10 - Len(fp))]
        ELSE [ok |-> FALSE, val |-> FloatVal(FALSE, <<0>>, 0)]

-----------------------------------------------------------------------------
(* resp.rs: the wire-tag registry                                          *)

RespDataKind ==
    {"SimpleString", "SimpleError", "Integer", "BulkString", "Array", "Null",
     "Boolean", "Float", "BigNumber", "BulkError", "VerbatimString", "Map",
     "Attributes", "Set", "Push"}

\* A registry in which Push shares the prefix of Array.
to_prefix_char_push_as_array(kind) ==
    CASE kind = "SimpleString"   -> "+"
      [] kind = "SimpleError"    -> "-"
      [] kind = "Integer"        -> ":"
      [] kind = "BulkString"     -> "$"
      [] kind = "Null"           -> "_"
      [] kind = "Boolean"        -> "#"
      [] kind = "Float"          -> ","
      [] kind = "BigNumber"      -> "("
      [] kind = "BulkError"      -> "!"
      [] kind = "VerbatimString" -> "="
      [] kind = "Map"            -> "%"
      [] kind = "Attributes"     -> "|"
      [] kind = "Set"            -> "~"
      [] OTHER                   -> "*"

to_prefix_char(kind) ==
    CASE kind = "SimpleString"   -> "+"
      [] kind = "SimpleError"    -> "-"
      [] kind = "Integer"        -> ":"
      [] kind = "BulkString"     -> "$"
      [] kind = "Array"          -> "*"
      [] kind = "Null"           -> "_"
      [] kind = "Boolean"        -> "#"
      [] kind = "Float"          -> ","
      [] kind = "BigNumber"      -> "("
      [] kind = "BulkError"      -> "!"
      [] kind = "VerbatimString" -> "="
      [] kind = "Map"            -> "%"
      [] kind = "Attributes"     -> "|"
      [] kind = "Set"            -> "~"
      [] kind = "Push"           -> ">"

to_prefix_bytes(kind) == Ord(to_prefix_char(kind))

\* "None" when the byte is no prefix.
from_prefix_bytes(b) ==
    CASE b = Ord("+") -> "SimpleString"
      [] b = Ord("-") -> "SimpleError"
      [] b = Ord(":") -> "Integer"
      [] b = Ord("$") -> "BulkString"
      [] b = Ord("*") -> "Array"
      [] b = Ord("_") -> "Null"
      [] b = Ord("#") -> "Boolean"
      [] b = Ord(",") -> "Float"
      [] b = Ord("(") -> "BigNumber"
      [] b = Ord("!") -> "BulkError"
      [] b = Ord("=") -> "VerbatimString"
      [] b = Ord("%") -> "Map"
      [] b = Ord("|") -> "Attributes"
      [] b = Ord("~") -> "Set"
      [] b = Ord(">") -> "Push"
      [] OTHER        -> "None"

-----------------------------------------------------------------------------
(* error.rs: the error taxonomy, and what an operation returns             *)

NoByte == -1

Error(kind) == [kind |-> kind, expected |-> "", found |-> NoByte]
UnexpectedByte(expected, found) ==
    [kind |-> "UnexpectedByte", expected |-> expected, found |-> found]
DeserializeError(msg) == [kind |-> "DeserializeError", expected |-> msg, found |-> NoByte]
SerializeError(msg) == [kind |-> "SerializeError", expected |-> msg, found |-> NoByte]
NoError == Error("")

ErrorKinds == {"SerializeError", "DeserializeError", "UnexpectedEnd", "UnexpectedByte",
               "UnrecognizedStart", "InvalidUtf8", "ExpectedLength"}

\* What a Deserializer method returns, with the input it leaves behind.
\* st is "Ok", "Err", or "Panic" (the thread panicked: nothing is returned).
NoVal == <<>>
Ok(val, rest) == [st |-> "Ok", val |-> val, err |-> NoError, rest |-> rest]
Err(err, rest) == [st |-> "Err", val |-> NoVal, err |-> err, rest |-> rest]
Panic(rest) == [st |-> "Panic", val |-> NoVal, err |-> NoError, rest |-> rest]
\* The `?` operator: an operation that did not return Ok ends the caller with
\* what it returned; otherwise the caller goes on, K, with the result.
Failed(r) == [st |-> r.st, val |-> NoVal, err |-> r.err, rest |-> r.rest]
Try(r, K(_)) == IF r.st # "Ok" THEN Failed(r) ELSE K(r)
\* `let x = e;`: the rest of the body, K, with e computed once.
Let(x, K(_)) == K(x)

-----------------------------------------------------------------------------
(* de.rs: the Deserializer's cursor.  Every operation takes the remaining  *)
(* input and returns it, advanced, in the rest field of its result.        *)

\* char::from(byte).to_string(), for the bytes that are ever expected.
Chr(b) == (CHOOSE e \in Range(AsciiTable) : e[2] = b)[1]

next_byte(inp) ==
    IF inp # <<>> THEN Ok(inp[1], Drop(inp, 1))
    ELSE Err(Error("UnexpectedEnd"), inp)

\* self.input.first().ok_or(Error::UnexpectedEnd): a peek, nothing is consumed.
input_first(inp) == IF inp # <<>> THEN Ok(inp[1], inp) ELSE Err(Error("UnexpectedEnd"), inp)

expect_byte(inp, expected) ==
    Try(next_byte(inp), LAMBDA first :
        IF first.val = expected THEN Ok(NoVal, first.rest)
        ELSE Err(UnexpectedByte(Chr(expected), first.val), first.rest))

\* A cursor that steps back over the byte before it when the line end is missing.
expect_crlf_rewinding(inp) ==
    IF starts_with(inp, CRLF) THEN Ok(NoVal, Drop(inp, Len(CRLF)))
    ELSE IF inp = <<>> THEN Err(Error("UnexpectedEnd"), inp)
    ELSE Err(UnexpectedByte("CRLF", inp[1]), <<inp[1]>> \o inp)

expect_crlf(inp) ==
    IF starts_with(inp, CRLF) THEN Ok(NoVal, Drop(inp, Len(CRLF)))
    ELSE IF inp = <<>> THEN Err(Error("UnexpectedEnd"), inp)
    ELSE Err(UnexpectedByte("CRLF", inp[1]), inp)

\* The length returned is a magnitude: a count of up to usize::MAX.
expect_length(inp) ==
    Let(position(inp, LAMBDA b : ~is_ascii_digit(b)), LAMBDA first_non_numeric :
        IF first_non_numeric = NoneIdx THEN Err(Error("ExpectedLength"), inp)
        ELSE Let(Drop(inp, first_non_numeric), LAMBDA rest :
             Let(int_from_str("usize", Take(inp, first_non_numeric)), LAMBDA length :
                 IF ~length.ok THEN Err(Error("ExpectedLength"), rest)
                 ELSE Ok(length.val.mag, rest))))

\* Whether a length is at most n, and the length as a number when it is.
LengthAtMost(length, n) == MagLE(length, NatMag(n))

\* slice.windows(2).position(|w| w == CRLF)
crlf_position(inp) ==
    Let({i \in 1..(Len(inp) - 1) : SubSeq(inp, i, i + 1) = CRLF}, LAMBDA hits :
        IF hits = {} THEN NoneIdx
        ELSE (CHOOSE i \in hits : \A j \in hits : i <= j) - 1)

\* String::from_utf8(data.to_vec())?
from_utf8(data, rest) ==
    IF utf8_valid(data) THEN Ok(data, rest) ELSE Err(Error("InvalidUtf8"), rest)

\* A parse_simple_string that takes an empty span for the empty string.
parse_simple_string_allow_empty(inp) ==
    Let(crlf_position(inp), LAMBDA crlf_index :
        IF crlf_index = NoneIdx THEN Err(Error("UnexpectedEnd"), inp)
        ELSE Try(expect_crlf(Drop(inp, crlf_index)), LAMBDA crlf :
                 from_utf8(Take(inp, crlf_index), crlf.rest)))

parse_simple_string(inp) ==
    Let(crlf_position(inp), LAMBDA crlf_index :
        IF crlf_index = NoneIdx THEN Err(Error("UnexpectedEnd"), inp)
        ELSE Let(Take(inp, crlf_index), LAMBDA text :
             Let(Drop(inp, crlf_index), LAMBDA rest :
                 IF text = <<>> THEN Err(Error("UnexpectedEnd"), rest)
                 ELSE Try(expect_crlf(rest), LAMBDA crlf : from_utf8(text, crlf.rest)))))

\* A parse_bulk_string that knows no null sentinel.
parse_bulk_string_no_sentinel(inp) ==
    Try(expect_length(inp), LAMBDA length :
    Try(expect_crlf(length.rest), LAMBDA crlf1 :
        IF ~LengthAtMost(length.val, Len(crlf1.rest)) THEN Panic(crlf1.rest)
        ELSE Let(MagNat(length.val), LAMBDA n :
             Try(expect_crlf(Drop(crlf1.rest, n)), LAMBDA crlf2 :
                 from_utf8(Take(crlf1.rest, n), crlf2.rest)))))

\* A parse_bulk_string that reads its payload up to the first CRLF.
parse_bulk_string_scanning(inp) ==
    IF starts_with(inp, B(<<"-", "1", "CR", "LF">>)) THEN Ok(<<>>, Drop(inp, 4))
    ELSE Try(expect_length(inp), LAMBDA length :
         Try(expect_crlf(length.rest), LAMBDA crlf1 :
             IF starts_with(crlf1.rest, CRLF) THEN Ok(<<>>, Drop(crlf1.rest, 2))
             ELSE parse_simple_string(crlf1.rest)))

\* Slicing input[..length] panics when length exceeds what remains.
parse_bulk_string(inp) ==
    IF starts_with(inp, B(<<"-", "1", "CR", "LF">>)) THEN Ok(<<>>, Drop(inp, 4))
    ELSE Try(expect_length(inp), LAMBDA length :
         Try(expect_crlf(length.rest), LAMBDA crlf1 :
             IF ~LengthAtMost(length.val, Len(crlf1.rest)) THEN Panic(crlf1.rest)
             ELSE Let(MagNat(length.val), LAMBDA n :
                  Try(expect_crlf(Drop(crlf1.rest, n)), LAMBDA crlf2 :
                      from_utf8(Take(crlf1.rest, n), crlf2.rest)))))

\* A parse_string that takes the tags of strings only.
parse_string_strict(inp) ==
    Try(next_byte(inp), LAMBDA first :
    Let(from_prefix_bytes(first.val), LAMBDA kind :
        IF kind = "None" THEN Err(Error("UnrecognizedStart"), first.rest)
        ELSE IF kind \in {"SimpleString", "SimpleError"}
             THEN parse_simple_string(first.rest)
        ELSE IF kind \in {"BulkString", "BulkError", "VerbatimString"}
             THEN parse_bulk_string(first.rest)
        ELSE Err(UnexpectedByte("A string or number prefix", first.val), first.rest)))

parse_string(inp) ==
    Try(next_byte(inp), LAMBDA first :
    Let(from_prefix_bytes(first.val), LAMBDA kind :
        IF kind = "None" THEN Err(Error("UnrecognizedStart"), first.rest)
        ELSE IF kind \in {"SimpleString", "SimpleError", "Integer", "BigNumber", "Float"}
             THEN parse_simple_string(first.rest)
        ELSE IF kind \in {"BulkString", "BulkError", "VerbatimString"}
             THEN parse_bulk_string(first.rest)
        ELSE Err(UnexpectedByte("A string or number prefix", first.val), first.rest)))

FloatTypes == {"f32", "f64"}

\* A parse that checks the value against 128 bits whatever the type.
number_from_str_widest(N, text) ==
    IF N \in FloatTypes THEN float_from_str(text)
    ELSE int_from_str(IF Signed[N] THEN "i128" ELSE "u128", text)

\* str::parse::<N>
number_from_str(N, text) ==
    IF N \in FloatTypes THEN float_from_str(text) ELSE int_from_str(N, text)

\* A parse_number whose parse failure reports the prefix byte.
parse_number_found_prefix(N, inp) ==
    Try(next_byte(inp), LAMBDA first :
    Let(from_prefix_bytes(first.val), LAMBDA kind :
        IF kind = "None" THEN Err(Error("UnrecognizedStart"), first.rest)
        ELSE IF kind \notin {"Integer", "Float", "BigNumber"}
             THEN Err(UnexpectedByte("An integer (:), float (,), or big number (() prefix",
                                     first.val), first.rest)
        ELSE
    Let(position(first.rest, LAMBDA c : ~Contains(VALID_NUMERIC_CHARS, c)),
        LAMBDA non_numeric_index :
        IF non_numeric_index = NoneIdx THEN Err(Error("UnexpectedEnd"), first.rest)
        ELSE
    Let(Take(first.rest, non_numeric_index), LAMBDA value_str :
    Let(Drop(first.rest, non_numeric_index), LAMBDA rest :
    Let(number_from_str(N, value_str), LAMBDA parsed :
        IF ~parsed.ok
        THEN Err(UnexpectedByte("A valid integer string", first.val), rest)
        ELSE Try(expect_crlf(rest), LAMBDA crlf : Ok(parsed.val, crlf.rest))))))))

parse_number(N, inp) ==
    Try(next_byte(inp), LAMBDA first :
    Let(from_prefix_bytes(first.val), LAMBDA kind :
        IF kind = "None" THEN Err(Error("UnrecognizedStart"), first.rest)
        ELSE IF kind \notin {"Integer", "Float", "BigNumber"}
             THEN Err(UnexpectedByte("An integer (:), float (,), or big number (() prefix",
                                     first.val), first.rest)
        ELSE
    Let(position(first.rest, LAMBDA c : ~Contains(VALID_NUMERIC_CHARS, c)),
        LAMBDA non_numeric_index :
        IF non_numeric_index = NoneIdx THEN Err(Error("UnexpectedEnd"), first.rest)
        ELSE
    Let(Take(first.rest, non_numeric_index), LAMBDA value_str :
    Let(Drop(first.rest, non_numeric_index), LAMBDA rest :
    Let(number_from_str(N, value_str), LAMBDA parsed :
        IF ~parsed.ok
        THEN Err(UnexpectedByte("A valid integer string",
                                IF value_str = <<>> THEN 0 ELSE value_str[1]), rest)
        ELSE Try(expect_crlf(rest), LAMBDA crlf : Ok(parsed.val, crlf.rest))))))))

-----------------------------------------------------------------------------
(* Shapes: the Rust types a caller asks from_bytes for or hands to_bytes.  *)
(* A value of a shape: bool a BOOLEAN; an integer IntVal; a float          *)
(* FloatVal; a char and a String their UTF-8 bytes; () the string "()";    *)
(* Option <<>> (None) or <<v>> (Some); Vec and tuples a sequence; a struct *)
(* the sequence of its fields' values in declaration order; an enum        *)
(* <<variant name, payload>> with payload <<>> (unit), <<v>> (newtype) or  *)
(* the sequence of the variant's fields; a byte buffer its bytes; a map    *)
(* with String keys the function from its keys to their values.            *)

TBool       == [k |-> "bool"]
TInt(ty)    == [k |-> "int", ty |-> ty]
TFloat(ty)  == [k |-> "float", ty |-> ty]
TChar       == [k |-> "char"]
TStr        == [k |-> "str"]
TUnit       == [k |-> "unit"]
TOption(T)  == [k |-> "option", of |-> T]
TSeq(T)     == [k |-> "seq", of |-> T]
TTuple(Ts)  == [k |-> "tuple", items |-> Ts]
TStruct(fs) == [k |-> "struct", fields |-> fs]
TEnum(vs)   == [k |-> "enum", variants |-> vs]
TIgnored    == [k |-> "ignored_any"]
\* A byte buffer: serialized with serialize_bytes, deserialized with
\* deserialize_byte_buf by a visitor that takes visit_bytes.
TBytes      == [k |-> "bytes"]
\* A sequence serialized from an iterator whose length is not known ahead
\* (serialize_seq(None)); it is read back as a Vec.
TIter(T)    == [k |-> "iter", of |-> T]
\* BTreeMap<K, V>, and a map serialized without a length known ahead
\* (serialize_map(None)); it is read back as a BTreeMap.
TMap(K, V)     == [k |-> "map", key |-> K, val |-> V]
TMapIter(K, V) == [k |-> "mapiter", key |-> K, val |-> V]

Field(name, T) == [name |-> name, ty |-> T]
UnitVariant(name)        == [name |-> name, kind |-> "unit", ty |-> <<>>]
NewtypeVariant(name, T)  == [name |-> name, kind |-> "newtype", ty |-> T]
TupleVariant(name, Ts)   == [name |-> name, kind |-> "tuple", ty |-> Ts]
StructVariant(name, fs)  == [name |-> name, kind |-> "struct", ty |-> fs]

None == <<>>
Some(v) == <<v>>
Unit == "()"

\* The index of the field or variant called name, 0 when there is none.
IndexOf(named, name) ==
    IF \E i \in 1..Len(named) : named[i].name = name
    THEN CHOOSE i \in 1..Len(named) : named[i].name = name
    ELSE 0

StringFamily == {"SimpleString", "SimpleError", "BulkString", "BulkError", "VerbatimString"}

-----------------------------------------------------------------------------
(* de.rs: impl serde::de::Deserializer, with serde's visitors for each     *)
(* shape.  deserialize(T, inp) is T::deserialize(&mut deserializer).       *)

RECURSIVE deserialize(_, _)

\* A deserialize_bool that takes every byte other than t for false.
deserialize_bool_lenient(inp) ==
    Try(expect_byte(inp, to_prefix_bytes("Boolean")), LAMBDA tag :
    Try(next_byte(tag.rest), LAMBDA b :
    Try(expect_crlf(b.rest), LAMBDA crlf : Ok(b.val = Ord("t"), crlf.rest))))

deserialize_bool(inp) ==
    Try(expect_byte(inp, to_prefix_bytes("Boolean")), LAMBDA tag :
    Try(next_byte(tag.rest), LAMBDA b :
        IF b.val = Ord("t") THEN Try(expect_crlf(b.rest), LAMBDA crlf : Ok(TRUE, crlf.rest))
        ELSE IF b.val = Ord("f")
             THEN Try(expect_crlf(b.rest), LAMBDA crlf : Ok(FALSE, crlf.rest))
        ELSE Err(UnexpectedByte("One of t or f", b.val), b.rest)))

\* A Deserializer with deserialize_i128 / deserialize_u128 over parse_number.
deserialize_int_any_width(ty, inp) == parse_number(ty, inp)

\* deserialize_i8 .. deserialize_u64; the 128-bit methods are serde's defaults.
deserialize_int(ty, inp) ==
    IF Bits[ty] = 128 THEN Err(DeserializeError(IF Signed[ty] THEN "i128 is not supported"
                                                    ELSE "u128 is not supported"), inp)
    ELSE parse_number(ty, inp)

deserialize_float(ty, inp) == parse_number(ty, inp)

\* A char is the byte string of its UTF-8 encoding; s.len() counts bytes.
first_char(s) ==
    LET b0 == s[1]
    IN  IF b0 < 128 THEN Take(s, 1) ELSE IF b0 < 224 THEN Take(s, 2)
        ELSE IF b0 < 240 THEN Take(s, 3) ELSE Take(s, 4)

deserialize_char(inp) ==
    Try(parse_string(inp), LAMBDA s :
        IF Len(s.val) > 1
        THEN Err(DeserializeError("Expected a single character string"), s.rest)
        ELSE IF s.val = <<>>
             THEN Err(DeserializeError("String is empty, expected a single character"),
                      s.rest)
        ELSE Ok(first_char(s.val), s.rest))

deserialize_string(inp) == parse_string(inp)

deserialize_str(inp) == deserialize_string(inp)

deserialize_identifier(inp) == deserialize_str(inp)

deserialize_unit(inp) ==
    Try(expect_byte(inp, to_prefix_bytes("Null")), LAMBDA tag :
    Try(expect_crlf(tag.rest), LAMBDA crlf : Ok(Unit, crlf.rest)))

\* A deserialize_option that never looks for the Null prefix.
deserialize_option_always_some(T, inp) ==
    Try(deserialize(T, inp), LAMBDA v : Ok(Some(v.val), v.rest))

\* visit_unit gives None; visit_some decodes the inner shape.
deserialize_option(T, inp) ==
    IF starts_with(inp, <<to_prefix_bytes("Null")>>)
    THEN Try(deserialize_unit(inp), LAMBDA u : Ok(None, u.rest))
    ELSE Try(deserialize(T, inp), LAMBDA v : Ok(Some(v.val), v.rest))

\* A visitor that stops one element early.
exhausted_one_early(length, current) == MagLE(length, NatMag(current + 1))

\* LengthSeqVisitor::next_element_seed / next_key_seed: whether the declared
\* count is used up.
exhausted(length, current) == MagLE(length, NatMag(current))

\* A Vec visitor over an accessor that takes the end of the input for the
\* end of the sequence.
RECURSIVE visit_seq_vec_until_end(_, _, _, _, _)
visit_seq_vec_until_end(T, inp, length, current, acc) ==
    IF exhausted(length, current) \/ inp = <<>> THEN Ok(acc, inp)
    ELSE Try(deserialize(T, inp), LAMBDA e :
             visit_seq_vec_until_end(T, e.rest, length, current + 1, Append(acc, e.val)))

\* Vec<T>'s visitor: next_element until it returns None.
RECURSIVE visit_seq_vec(_, _, _, _, _)
visit_seq_vec(T, inp, length, current, acc) ==
    IF exhausted(length, current) THEN Ok(acc, inp)
    ELSE Try(deserialize(T, inp), LAMBDA e :
             visit_seq_vec(T, e.rest, length, current + 1, Append(acc, e.val)))

\* A tuple's visitor: one next_element per item, an error when it returns None.
RECURSIVE visit_seq_tuple(_, _, _, _, _)
visit_seq_tuple(Ts, inp, length, current, acc) ==
    IF Len(acc) = Len(Ts) THEN Ok(acc, inp)
    ELSE IF exhausted(length, current)
         THEN Err(DeserializeError("invalid length"), inp)
    ELSE Try(deserialize(Ts[Len(acc) + 1], inp), LAMBDA e :
             visit_seq_tuple(Ts, e.rest, length, current + 1, Append(acc, e.val)))

\* IgnoredAny's visitors: every element, key and value is decoded and dropped.
RECURSIVE visit_ignored(_, _, _, _)
visit_ignored(inp, length, current, per) ==
    IF exhausted(length, current) THEN Ok("IgnoredAny", inp)
    ELSE Try(deserialize(TIgnored, inp), LAMBDA k :
             IF per = 1 THEN visit_ignored(k.rest, length, current + 1, per)
             ELSE Try(deserialize(TIgnored, k.rest), LAMBDA v :
                      visit_ignored(v.rest, length, current + 1, per)))

\* A derived struct's visit_map: keys are field identifiers, an unknown key's
\* value is ignored, a repeated field is an error, and a field that never came
\* is None for an Option and an error otherwise.
RECURSIVE visit_map_struct(_, _, _, _, _)
visit_map_struct(fields, inp, length, current, got) ==
    IF exhausted(length, current)
    THEN IF \E i \in 1..Len(fields) : got[i] = <<>> /\ fields[i].ty.k # "option"
         THEN Err(DeserializeError("missing field"), inp)
         ELSE Ok([i \in 1..Len(fields) |-> IF got[i] = <<>> THEN None ELSE got[i][1]], inp)
    ELSE Try(deserialize_identifier(inp), LAMBDA key :
         Let(IndexOf(fields, key.val), LAMBDA i :
             IF i # 0 /\ got[i] # <<>>
             THEN Err(DeserializeError("duplicate field"), key.rest)
             ELSE Try(deserialize(IF i = 0 THEN TIgnored ELSE fields[i].ty, key.rest),
                      LAMBDA v :
                      visit_map_struct(fields, v.rest, length, current + 1,
                                       IF i = 0 THEN got
                                       ELSE [got EXCEPT ![i] = <<v.val>>]))))

\* A sequence header that takes the Array prefix only.
seq_header_array_only(inp) ==
    Try(input_first(inp), LAMBDA f :
    Let(from_prefix_bytes(f.val), LAMBDA kind :
        IF kind = "None" THEN Err(Error("UnrecognizedStart"), inp)
        ELSE IF kind # "Array"
             THEN Err(UnexpectedByte("An array, set, or push prefix", f.val), inp)
        ELSE Try(expect_byte(inp, f.val), LAMBDA tag :
             Try(expect_length(tag.rest), LAMBDA length :
             Try(expect_crlf(length.rest), LAMBDA crlf : Ok(length.val, crlf.rest))))))

\* deserialize_seq / deserialize_tuple / deserialize_tuple_struct up to the
\* visitor: the length of the LengthSeqVisitor handed to visit_seq.
seq_header(inp) ==
    Try(input_first(inp), LAMBDA f :
    Let(from_prefix_bytes(f.val), LAMBDA kind :
        IF kind = "None" THEN Err(Error("UnrecognizedStart"), inp)
        ELSE IF kind \notin {"Array", "Set", "Push"}
             THEN Err(UnexpectedByte("An array, set, or push prefix", f.val), inp)
        ELSE Try(expect_byte(inp, f.val), LAMBDA tag :
             Try(expect_length(tag.rest), LAMBDA length :
             Try(expect_crlf(length.rest), LAMBDA crlf : Ok(length.val, crlf.rest))))))

\* deserialize_map / deserialize_struct up to the visitor.
map_header(inp) ==
    Try(input_first(inp), LAMBDA f :
    Let(from_prefix_bytes(f.val), LAMBDA kind :
        IF kind = "None" THEN Err(Error("UnrecognizedStart"), inp)
        ELSE IF kind \notin {"Map", "Attributes"}
             THEN Err(UnexpectedByte("A map or attributes prefix", f.val), inp)
        ELSE Try(expect_byte(inp, f.val), LAMBDA tag :
             Try(expect_length(tag.rest), LAMBDA length :
             Try(expect_crlf(length.rest), LAMBDA crlf : Ok(length.val, crlf.rest))))))

deserialize_seq(T, inp) ==
    Try(seq_header(inp), LAMBDA h : visit_seq_vec(T, h.rest, h.val, 0, <<>>))

deserialize_tuple(Ts, inp) ==
    Try(seq_header(inp), LAMBDA h : visit_seq_tuple(Ts, h.rest, h.val, 0, <<>>))

deserialize_struct(fields, inp) ==
    Try(map_header(inp), LAMBDA h :
        visit_map_struct(fields, h.rest, h.val, 0, [i \in 1..Len(fields) |-> <<>>]))

\* BTreeMap's visit_map: next_entry until next_key returns None; a key that
\* comes again replaces the value it had.
RECURSIVE visit_map_entries(_, _, _, _, _, _)
visit_map_entries(K, V, inp, length, current, acc) ==
    IF exhausted(length, current) THEN Ok(acc, inp)
    ELSE Try(deserialize(K, inp), LAMBDA key :
         Try(deserialize(V, key.rest), LAMBDA v :
             visit_map_entries(K, V, v.rest, length, current + 1,
                               [x \in (DOMAIN acc) \cup {key.val} |->
                                   IF x = key.val THEN v.val ELSE acc[x]])))

EmptyMap == [x \in {} |-> NoVal]

deserialize_map(K, V, inp) ==
    Try(map_header(inp), LAMBDA h : visit_map_entries(K, V, h.rest, h.val, 0, EmptyMap))

\* deserialize_bytes / deserialize_byte_buf: the visitor is handed the whole
\* of the remaining input, and the cursor stays where it is.
deserialize_byte_buf(inp) == Ok(inp, inp)

\* A variant_seed that reads the first key whatever count the map declares.
variant_seed_any_count(inp) ==
    Try(input_first(inp), LAMBDA f :
    Let(from_prefix_bytes(f.val), LAMBDA kind :
        IF kind = "None" THEN Err(Error("UnrecognizedStart"), inp)
        ELSE IF kind \notin {"Map", "Attributes"}
             THEN Err(UnexpectedByte("A map or attributes prefix", f.val), inp)
        ELSE Try(expect_byte(inp, f.val), LAMBDA tag :
             Try(expect_length(tag.rest), LAMBDA length :
             Try(expect_crlf(length.rest), LAMBDA crlf :
                 deserialize_identifier(crlf.rest))))))

\* EnumAccess::variant_seed for EnumDeserializer: the variant's name.
variant_seed(inp) ==
    Try(input_first(inp), LAMBDA f :
    Let(from_prefix_bytes(f.val), LAMBDA kind :
        IF kind = "None" THEN Err(Error("UnrecognizedStart"), inp)
        ELSE IF kind \notin {"Map", "Attributes"}
             THEN Err(UnexpectedByte("A map or attributes prefix", f.val), inp)
        ELSE Try(expect_byte(inp, f.val), LAMBDA tag :
             Try(expect_length(tag.rest), LAMBDA length :
                 IF length.val # <<1>>
                 THEN Err(DeserializeError(
                              "Expected a single key-value pair for enum variant"),
                          length.rest)
                 ELSE Try(expect_crlf(length.rest), LAMBDA crlf :
                          deserialize_identifier(crlf.rest))))))

\* VariantAccess for EnumDeserializer, called by the derived visit_enum with
\* the kind of the variant that was named.
variant_access(variant, inp) ==
    CASE variant.kind = "unit" ->
           Err(DeserializeError("Expected a unit variant, which must be a string"), inp)
      [] variant.kind = "newtype" ->
           Try(deserialize(variant.ty, inp), LAMBDA v : Ok(<<v.val>>, v.rest))
      [] variant.kind = "tuple"  -> deserialize_tuple(variant.ty, inp)
      [] variant.kind = "struct" -> deserialize_struct(variant.ty, inp)

\* The derived visit_enum: over a string (a StrDeserializer, whose variant
\* access allows a unit variant only) or over the EnumDeserializer.
deserialize_enum(variants, inp) ==
    Try(input_first(inp), LAMBDA f :
    Let(from_prefix_bytes(f.val), LAMBDA kind :
        IF kind = "None" THEN Err(Error("UnrecognizedStart"), inp)
        ELSE IF kind \in StringFamily
             THEN Try(parse_string(inp), LAMBDA s :
                  Let(IndexOf(variants, s.val), LAMBDA i :
                      IF i = 0 THEN Err(DeserializeError("unknown variant"), s.rest)
                      ELSE IF variants[i].kind # "unit"
                           THEN Err(DeserializeError("invalid type: unit variant"), s.rest)
                      ELSE Ok(<<s.val, <<>>>>, s.rest)))
        ELSE IF kind \in {"Map", "Attributes"}
             THEN Try(variant_seed(inp), LAMBDA name :
                  Let(IndexOf(variants, name.val), LAMBDA i :
                      IF i = 0 THEN Err(DeserializeError("unknown variant"), name.rest)
                      ELSE Try(variant_access(variants[i], name.rest), LAMBDA v :
                               Ok(<<name.val, v.val>>, v.rest))))
        ELSE Err(UnexpectedByte("A string or map prefix", f.val), inp)))

\* IgnoredAny's visitor keeps nothing of what deserialize_any hands it.
ignored(r) == Try(r, LAMBDA v : Ok("IgnoredAny", v.rest))

\* deserialize_ignored_any is deserialize_any, driven by IgnoredAny's visitor.
deserialize_any(inp) ==
    Try(input_first(inp), LAMBDA f :
    Let(from_prefix_bytes(f.val), LAMBDA kind :
        IF kind = "None" THEN Err(Error("UnrecognizedStart"), inp)
        ELSE IF kind \in StringFamily THEN ignored(deserialize_string(inp))
        ELSE IF kind = "Integer" THEN ignored(deserialize_int("i64", inp))
        ELSE IF kind \in {"Array", "Set", "Push"}
             THEN Try(seq_header(inp), LAMBDA h : visit_ignored(h.rest, h.val, 0, 1))
        ELSE IF kind = "Null" THEN ignored(deserialize_unit(inp))
        ELSE IF kind = "Boolean" THEN ignored(deserialize_bool(inp))
        ELSE IF kind = "Float" THEN ignored(deserialize_float("f64", inp))
        ELSE IF kind = "BigNumber" THEN ignored(deserialize_int("i128", inp))
        ELSE Try(map_header(inp), LAMBDA h : visit_ignored(h.rest, h.val, 0, 2))))

deserialize(T, inp) ==
    CASE T.k = "bool"   -> deserialize_bool(inp)
      [] T.k = "int"    -> deserialize_int(T.ty, inp)
      [] T.k = "float"  -> deserialize_float(T.ty, inp)
      [] T.k = "char"   -> deserialize_char(inp)
      [] T.k = "str"    -> deserialize_string(inp)
      [] T.k = "unit"   -> deserialize_unit(inp)
      [] T.k = "option" -> deserialize_option(T.of, inp)
      [] T.k = "seq"    -> deserialize_seq(T.of, inp)
      [] T.k = "tuple"  -> deserialize_tuple(T.items, inp)
      [] T.k = "struct" -> deserialize_struct(T.fields, inp)
      [] T.k = "enum"   -> deserialize_enum(T.variants, inp)
      [] T.k = "ignored_any" -> deserialize_any(inp)
      [] T.k = "bytes"  -> deserialize_byte_buf(inp)
      [] T.k = "iter"   -> deserialize_seq(T.of, inp)
      [] T.k \in {"map", "mapiter"} -> deserialize_map(T.key, T.val, inp)

\* from_bytes: a new Deserializer over the bytes, then T::deserialize.
\* A decode that demands that the value be all of the input.
from_bytes_whole(T, bs) ==
    Try(deserialize(T, bs), LAMBDA v :
        IF v.rest = <<>> THEN v ELSE Err(Error("TrailingCharacters"), v.rest))

from_bytes(T, bs) == deserialize(T, bs)

\* from_str: the bytes of the text.
from_str(T, s) == from_bytes(T, s)

-----------------------------------------------------------------------------
(* de.rs: LengthSeqVisitor, one call at a time.  A call takes the visitor  *)
(* and the Deserializer's input and returns the visitor as it leaves it    *)
(* and what the call returned, the input it leaves behind in rest.         *)

LengthSeqVisitor(length) == [length |-> length, current |-> 0]

\* A next_element_seed that does not count the element it hands out.
next_element_seed_uncounted(T, acc, inp) ==
    IF exhausted(acc.length, acc.current)
    THEN [access |-> acc, ret |-> Ok(None, inp)]
    ELSE [access |-> acc,
          ret |-> Try(deserialize(T, inp), LAMBDA e : Ok(Some(e.val), e.rest))]

\* SeqAccess::next_element_seed with the seed of an element of shape T.
next_element_seed(T, acc, inp) ==
    IF exhausted(acc.length, acc.current)
    THEN [access |-> acc, ret |-> Ok(None, inp)]
    ELSE [access |-> [acc EXCEPT !.current = @ + 1],
          ret |-> Try(deserialize(T, inp), LAMBDA e : Ok(Some(e.val), e.rest))]

\* MapAccess::next_key_seed with the seed of a key of shape K.
next_key_seed(K, acc, inp) ==
    IF exhausted(acc.length, acc.current)
    THEN [access |-> acc, ret |-> Ok(None, inp)]
    ELSE [access |-> [acc EXCEPT !.current = @ + 1],
          ret |-> Try(deserialize(K, inp), LAMBDA e : Ok(Some(e.val), e.rest))]

\* MapAccess::next_value_seed with the seed of a value of shape V.
next_value_seed(V, acc, inp) == [access |-> acc, ret |-> deserialize(V, inp)]

-----------------------------------------------------------------------------
(* ser.rs: impl serde::Serializer.  Every operation takes Serializer.output *)
(* and returns it, with what it appended, in the out field of its result.  *)

SerOk(out) == [st |-> "Ok", out |-> out, err |-> NoError]
SerErr(err, out) == [st |-> "Err", out |-> out, err |-> err]
\* The `?` operator on the Serializer's methods.
SerTry(r, K(_)) == IF r.st # "Ok" THEN r ELSE K(r)

serialize_bool(out, v) ==
    SerOk(out \o <<to_prefix_bytes("Boolean")>>
              \o (IF v THEN B(<<"t">>) ELSE B(<<"f">>)) \o CRLF)

serialize_i64(out, v) ==
    SerOk(out \o <<to_prefix_bytes("Integer")>> \o int_to_string(v) \o CRLF)

\* A serialize_u64 that forwards to serialize_i64 as the narrower widths do.
serialize_u64_forwarding(out, v) == serialize_i64(out, v)

serialize_u64(out, v) ==
    SerOk(out \o <<to_prefix_bytes("BigNumber")>> \o int_to_string(v) \o CRLF)

serialize_i8(out, v)  == serialize_i64(out, v)
serialize_i16(out, v) == serialize_i64(out, v)
serialize_i32(out, v) == serialize_i64(out, v)
serialize_u8(out, v)  == serialize_i64(out, v)
serialize_u16(out, v) == serialize_i64(out, v)
serialize_u32(out, v) == serialize_i64(out, v)

\* The Serializer method serde's Serialize impl of each integer type calls:
\* isize goes through serialize_i64 and usize through serialize_u64; the
\* 128-bit methods are serde's defaults.
serialize_int(ty, out, v) ==
    CASE ty = "i8"    -> serialize_i8(out, v)
      [] ty = "i16"   -> serialize_i16(out, v)
      [] ty = "i32"   -> serialize_i32(out, v)
      [] ty = "i64"   -> serialize_i64(out, v)
      [] ty = "isize" -> serialize_i64(out, v)
      [] ty = "u8"    -> serialize_u8(out, v)
      [] ty = "u16"   -> serialize_u16(out, v)
      [] ty = "u32"   -> serialize_u32(out, v)
      [] ty = "u64"   -> serialize_u64(out, v)
      [] ty = "usize" -> serialize_u64(out, v)
      [] ty = "i128"  -> SerErr(SerializeError("i128 is not supported"), out)
      [] ty = "u128"  -> SerErr(SerializeError("u128 is not supported"), out)

\* <float>::to_string: plain decimal text, never an exponent.
float_to_string(v) ==
    LET n    == Len(v.mag)
        sign == IF v.neg THEN B(<<"-">>) ELSE <<>>
        zeros(c) == [i \in 1..c |-> 48]
    IN  sign \o
        (IF v.exp >= 0 THEN MagText(v.mag) \o zeros(v.exp)
         ELSE IF n > -v.exp
              THEN MagText(Take(v.mag, n + v.exp)) \o B(<<".">>)
                   \o MagText(Drop(v.mag, n + v.exp))
         ELSE B(<<"0", ".">>) \o zeros(-v.exp - n) \o MagText(v.mag))

serialize_f64(out, v) ==
    SerOk(out \o <<to_prefix_bytes("Float")>> \o float_to_string(v) \o CRLF)

serialize_f32(out, v) ==
    SerOk(out \o <<to_prefix_bytes("Float")>> \o float_to_string(v) \o CRLF)

serialize_bytes(out, v) ==
    SerOk(out \o <<to_prefix_bytes("BulkString")>> \o MagText(NatMag(Len(v))) \o CRLF
              \o v \o CRLF)

\* A serialize_str that writes a SimpleString: the prefix, the text, CRLF.
serialize_str_simple(out, v) ==
    SerOk(out \o <<to_prefix_bytes("SimpleString")>> \o v \o CRLF)

serialize_str(out, v) == serialize_bytes(out, v)

serialize_char(out, v) == serialize_str(out, v)

\* A serialize_none that assigns the output instead of extending it.
serialize_none_assigning(out) == SerOk(B(<<"_", "CR", "LF">>))

serialize_none(out) == SerOk(out \o B(<<"_", "CR", "LF">>))

serialize_unit(out) == serialize_none(out)

serialize_unit_variant(out, variant) == serialize_str(out, variant)

\* A variant header that writes the name and no Map framing before it.
variant_header_bare(out, variant) == serialize_str(out, variant)

\* The header of a newtype, tuple or struct variant: %1 CRLF and the name.
variant_header(out, variant) ==
    serialize_str(out \o <<to_prefix_bytes("Map")>> \o B(<<"1">>) \o CRLF, variant)

\* len is <<>> for an unknown length and <<n>> for a known one.
serialize_seq(out, len) ==
    SerOk(out \o <<to_prefix_bytes("Array")>>
              \o (IF len = <<>> THEN B(<<"-", "1">>) ELSE MagText(NatMag(len[1])))
              \o CRLF)

serialize_tuple(out, len) == serialize_seq(out, <<len>>)

serialize_tuple_variant(out, variant, len) ==
    SerTry(variant_header(out, variant), LAMBDA h : serialize_seq(h.out, <<len>>))

\* A serialize_map that writes the Map prefix before it looks at the length.
serialize_map_prefix_first(out, len) ==
    IF len = <<>>
    THEN SerErr(SerializeError("Cannot serialize a map with unknown length"),
                out \o <<to_prefix_bytes("Map")>>)
    ELSE SerOk(out \o <<to_prefix_bytes("Map")>> \o MagText(NatMag(len[1])) \o CRLF)

serialize_map(out, len) ==
    IF len = <<>>
    THEN SerErr(SerializeError("Cannot serialize a map with unknown length"), out)
    ELSE SerOk(out \o <<to_prefix_bytes("Map")>> \o MagText(NatMag(len[1])) \o CRLF)

serialize_struct(out, len) == serialize_map(out, <<len>>)

serialize_struct_variant(out, variant, len) ==
    SerTry(variant_header(out, variant), LAMBDA h : serialize_struct(h.out, len))

\* SerializeSeq::end, SerializeMap::end and those that forward to them.
end(out) == SerOk(out)

\* serialize(T, v, out) is v.serialize(&mut serializer) for a value v of shape T.
RECURSIVE serialize(_, _, _)

\* SerializeSeq / SerializeTuple / SerializeTupleVariant: serialize_element for
\* each element in order; end appends nothing.
RECURSIVE serialize_elements(_, _, _, _)
serialize_elements(Ts, vs, i, out) ==
    IF i > Len(vs) THEN SerOk(out)
    ELSE SerTry(serialize(Ts[i], vs[i], out), LAMBDA e :
                serialize_elements(Ts, vs, i + 1, e.out))

\* SerializeStruct / SerializeStructVariant: serialize_field is serialize_key
\* of the field's name, then serialize_value; end appends nothing.
RECURSIVE serialize_fields(_, _, _, _)
serialize_fields(fields, vs, i, out) ==
    IF i > Len(fields) THEN SerOk(out)
    ELSE SerTry(serialize_str(out, fields[i].name), LAMBDA key :
         SerTry(serialize(fields[i].ty, vs[i], key.out), LAMBDA val :
                serialize_fields(fields, vs, i + 1, val.out)))

\* Whether the byte string a comes before b in the order of a BTreeMap's keys.
StrLess(a, b) ==
    \E i \in 1..Len(b) :
        /\ i <= Len(a) + 1
        /\ \A j \in 1..(i - 1) : a[j] = b[j]
        /\ (i <= Len(a) => a[i] < b[i])

\* The keys of a map in the order its iterator yields them.
RECURSIVE SortedKeys(_)
SortedKeys(S) ==
    IF S = {} THEN <<>>
    ELSE Let(CHOOSE x \in S : \A y \in S \ {x} : StrLess(x, y), LAMBDA m :
             <<m>> \o SortedKeys(S \ {m}))

\* SerializeMap: serialize_key and serialize_value for each entry in order;
\* end appends nothing.
RECURSIVE serialize_entries(_, _, _, _, _, _)
serialize_entries(K, V, keys, m, i, out) ==
    IF i > Len(keys) THEN SerOk(out)
    ELSE SerTry(serialize(K, keys[i], out), LAMBDA key :
         SerTry(serialize(V, m[keys[i]], key.out), LAMBDA val :
                serialize_entries(K, V, keys, m, i + 1, val.out)))

serialize_some(T, v, out) == serialize(T, v, out)

serialize_newtype_variant(out, variant, T, v) ==
    SerTry(variant_header(out, variant), LAMBDA h : serialize(T, v, h.out))

\* A derived enum's Serialize, by the kind of the value's variant.
serialize_enum(variants, v, out) ==
    Let(variants[IndexOf(variants, v[1])], LAMBDA variant :
        CASE variant.kind = "unit" -> serialize_unit_variant(out, variant.name)
          [] variant.kind = "newtype" ->
               serialize_newtype_variant(out, variant.name, variant.ty, v[2][1])
          [] variant.kind = "tuple" ->
               SerTry(serialize_tuple_variant(out, variant.name, Len(variant.ty)),
                      LAMBDA h : serialize_elements(variant.ty, v[2], 1, h.out))
          [] variant.kind = "struct" ->
               SerTry(serialize_struct_variant(out, variant.name, Len(variant.ty)),
                      LAMBDA h : serialize_fields(variant.ty, v[2], 1, h.out)))

serialize(T, v, out) ==
    CASE T.k = "bool"   -> serialize_bool(out, v)
      [] T.k = "int"    -> serialize_int(T.ty, out, v)
      [] T.k = "float"  -> IF T.ty = "f32" THEN serialize_f32(out, v)
                           ELSE serialize_f64(out, v)
      [] T.k = "char"   -> serialize_char(out, v)
      [] T.k = "str"    -> serialize_str(out, v)
      [] T.k = "unit"   -> serialize_unit(out)
      [] T.k = "option" -> IF v = None THEN serialize_none(out)
                           ELSE serialize_some(T.of, v[1], out)
      [] T.k = "seq"    ->
           SerTry(serialize_seq(out, <<Len(v)>>), LAMBDA h :
                  serialize_elements([i \in 1..Len(v) |-> T.of], v, 1, h.out))
      [] T.k = "tuple"  ->
           SerTry(serialize_tuple(out, Len(T.items)), LAMBDA h :
                  serialize_elements(T.items, v, 1, h.out))
      [] T.k = "struct" ->
           SerTry(serialize_struct(out, Len(T.fields)), LAMBDA h :
                  serialize_fields(T.fields, v, 1, h.out))
      [] T.k = "enum"   -> serialize_enum(T.variants, v, out)
      [] T.k = "bytes"  -> serialize_bytes(out, v)
      [] T.k = "iter"   ->
           SerTry(serialize_seq(out, <<>>), LAMBDA h :
                  serialize_elements([i \in 1..Len(v) |-> T.of], v, 1, h.out))
      [] T.k = "map"    ->
           SerTry(serialize_map(out, <<Cardinality(DOMAIN v)>>), LAMBDA h :
                  serialize_entries(T.key, T.val, SortedKeys(DOMAIN v), v, 1, h.out))
      [] T.k = "mapiter" ->
           SerTry(serialize_map(out, <<>>), LAMBDA h :
                  serialize_entries(T.key, T.val, SortedKeys(DOMAIN v), v, 1, h.out))

\* to_bytes: a new Serializer, value.serialize, then its output.
to_bytes(T, v) == serialize(T, v, <<>>)

\* A to_string that hands the output on without String::from_utf8.
to_string_unchecked(T, v) == to_bytes(T, v)

\* to_string: the same, and the output as a String.
to_string(T, v) ==
    SerTry(to_bytes(T, v), LAMBDA r :
           IF utf8_valid(r.out) THEN r ELSE SerErr(Error("InvalidUtf8"), r.out))

-----------------------------------------------------------------------------
(* The shapes and values the model converts                                *)

MaxStrLen == 2     \* every string over StrAlphabet up to this length is encoded
MaxSeqLen == 2     \* every Vec up to this length is encoded
MaxCount == 3      \* every declared count up to this is decoded

u8 == TInt("u8")
u16 == TInt("u16")
u32 == TInt("u32")
i32 == TInt("i32")
i64 == TInt("i64")

\* enum E { U, N(u32), T(u8, i64), S { a: String, o: Option<u16> } }
E == TEnum(<< UnitVariant(B(<<"U">>)),
              NewtypeVariant(B(<<"N">>), u32),
              TupleVariant(B(<<"T">>), <<u8, i64>>),
              StructVariant(B(<<"S">>), <<Field(B(<<"a">>), TStr),
                                          Field(B(<<"o">>), TOption(u16))>>) >>)

\* struct P { n: String, a: u32, e: E, w: Option<i64> }
P == TStruct(<< Field(B(<<"n">>), TStr), Field(B(<<"a">>), u32),
                Field(B(<<"e">>), E), Field(B(<<"w">>), TOption(i64)) >>)

Shapes ==
    [i \in 1..Len(IntTypes) |-> TInt(IntTypes[i])] \o
    << TFloat("f32"), TFloat("f64"), TStr, TChar, TBool, TUnit,
       TOption(u8), TOption(TStr), TOption(TUnit), TOption(TOption(u8)),
       TSeq(i32), TSeq(TStr), TSeq(TOption(u8)), TTuple(<<u8, TStr>>),
       E, P, TSeq(E), TOption(P), TSeq(TSeq(u8)),
       TBytes, TIter(i32), TMap(TStr, u8), TMapIter(TStr, u8),
       TTuple(<<u8, TMapIter(TStr, u8)>>) >>

SeqsUpTo(S, n) == UNION {[1..m -> S] : m \in 0..n}

Zero == IntVal(FALSE, <<0>>)
Nat2Int(n) == IntVal(FALSE, NatMag(n))
MaxOf(ty) == IntVal(FALSE, MaxMag[ty])
MinOf(ty) == IntVal(Signed[ty], MinMag[ty])

StrAlphabet == {Ord("a"), Ord("CR"), Ord("LF")}

\* Strings long enough for a length of two digits, CRLF inside.
LongStrings ==
    { B(<<"a","b","c","CR","LF","a","b","c","e","f">>),
      B(<<"CR","LF","CR","LF","$","1","CR","LF","a","CR","LF","xC3","xA9">>) }

\* The values of a shape that are encoded inside a compound value.
RECURSIVE Nested(_)
RECURSIVE Prod(_)
Prod(Ts) ==
    IF Ts = <<>> THEN {<<>>}
    ELSE {<<h>> \o t : h \in Nested(Head(Ts)), t \in Prod(Tail(Ts))}

VariantValues(variant) ==
    CASE variant.kind = "unit"    -> {<<variant.name, <<>>>>}
      [] variant.kind = "newtype" -> {<<variant.name, <<v>>>> : v \in Nested(variant.ty)}
      [] variant.kind = "tuple"   -> {<<variant.name, vs>> : vs \in Prod(variant.ty)}
      [] variant.kind = "struct"  ->
           {<<variant.name, vs>> :
              vs \in Prod([i \in 1..Len(variant.ty) |-> variant.ty[i].ty])}

Nested(T) ==
    CASE T.k = "bool"   -> {TRUE, FALSE}
      [] T.k = "int"    -> {Zero, MaxOf(T.ty)} \cup (IF Signed[T.ty] THEN {MinOf(T.ty)} ELSE {})
      [] T.k = "float"  -> {FloatVal(FALSE, <<3, 1>>, -1)}
      [] T.k = "char"   -> {B(<<"a">>)}
      [] T.k = "str"    -> {<<>>, B(<<"a", "CR", "LF">>)}
      [] T.k = "unit"   -> {Unit}
      [] T.k = "option" -> {None} \cup {Some(v) : v \in Nested(T.of)}
      [] T.k = "seq"    -> SeqsUpTo(Nested(T.of), MaxSeqLen)
      [] T.k = "tuple"  -> Prod(T.items)
      [] T.k = "struct" -> Prod([i \in 1..Len(T.fields) |-> T.fields[i].ty])
      [] T.k = "enum"   -> UNION {VariantValues(T.variants[i]) : i \in 1..Len(T.variants)}
      [] T.k = "bytes"  -> {<<>>, B(<<"a", "CR", "LF">>), B(<<"xFF">>)}
      [] T.k = "iter"   -> SeqsUpTo(Nested(T.of), MaxSeqLen)
      [] T.k \in {"map", "mapiter"} ->
           UNION {[D -> Nested(T.val)] : D \in SUBSET Nested(T.key)}

\* The values of a shape that are handed to to_bytes.
Values(T) ==
    CASE T.k = "int"   ->
           {Zero, Nat2Int(1), Nat2Int(42), MaxOf(T.ty), MinOf(T.ty)}
           \cup (IF Signed[T.ty] THEN {IntVal(TRUE, <<1>>), IntVal(TRUE, <<4, 2>>)} ELSE {})
      [] T.k = "float" ->
           {FloatVal(FALSE, <<0>>, 0), FloatVal(FALSE, <<3, 1>>, -1),
            FloatVal(TRUE, <<3, 1>>, -1), FloatVal(FALSE, <<2>>, 20),
            FloatVal(FALSE, <<2>>, -20), FloatVal(FALSE, <<6, 5, 5>>, -1)}
      [] T.k = "char"  -> {B(<<"a">>), B(<<"xC3", "xA9">>), B(<<"xE2", "x82", "xAC">>),
                           <<240, 159, 152, 128>>}
      [] T.k = "str"   -> SeqsUpTo(StrAlphabet, MaxStrLen) \cup LongStrings
      [] OTHER         -> Nested(T)

-----------------------------------------------------------------------------
(* The inputs the model decodes                                            *)

\* The 15 prefix bytes, and two bytes that are no prefix.
TagBytes == {to_prefix_bytes(kind) : kind \in RespDataKind}
FirstBytes == TagBytes \cup {Ord("?"), Ord("x")}

\* Numeric tokens: around the limits of 8 and 64 bits, signed, padded,
\* malformed and empty.
Tokens ==
    { B(<<"4","2">>), B(<<"+","4","2">>), B(<<"-","4","2">>), B(<<"0">>),
      B(<<"-","0">>), B(<<"0","0","7">>), B(<<"1","2","7">>), B(<<"1","2","8">>),
      B(<<"-","1","2","8">>), B(<<"-","1","2","9">>), B(<<"2","5","5">>),
      B(<<"2","5","6">>), B(<<"3","0","0">>), B(<<"1",".","5">>), B(<<"1","e","2">>),
      B(<<"-">>), B(<<"+","-","1">>), <<>>,
      MagText(MaxMag["i64"]), MagText(MinMag["i64"]), B(<<"-">>) \o MagText(MinMag["i64"]),
      MagText(MaxMag["u64"]), MagText(PlusOne(MaxMag["u64"])) }

\* tag, token, CRLF: every first byte with every token.
NumberInputs == {<<t>> \o tok \o CRLF : t \in FirstBytes, tok \in Tokens}

\* Text after a tag byte: simple and bulk framings, well and ill formed.
Tails ==
    { B(<<"a","b","CR","LF">>), CRLF, B(<<"a","b">>), B(<<"a","CR","LF","b","CR","LF">>),
      B(<<"xFF","CR","LF">>), B(<<"xC3","xA9","CR","LF">>),
      B(<<"-","1","CR","LF">>), B(<<"-","1","CR","LF","a">>),
      B(<<"0","CR","LF","CR","LF">>), B(<<"0","CR","LF">>),
      B(<<"2","CR","LF","a","b","CR","LF">>), B(<<"2","CR","LF","a","b","CR","LF","a">>),
      B(<<"4","CR","LF","a","CR","LF","b","CR","LF">>),
      B(<<"2","CR","LF","CR","LF","CR","LF">>),
      B(<<"1","CR","LF","a","b","CR","LF">>), B(<<"1","CR","LF","xFF","CR","LF">>),
      B(<<"2","CR","LF","xC3","xA9","CR","LF">>),
      B(<<"5","CR","LF","a","b">>), B(<<"3","CR","LF","a","b">>),
      B(<<"2","CR","LF","a","b">>), B(<<"2","a","b">>), B(<<"2">>),
      B(<<"t","CR","LF">>), B(<<"f","CR","LF">>), B(<<"x","CR","LF">>), B(<<"t">>),
      <<>> } \cup
    { MagText(PlusOne(MaxMag["u64"])) \o CRLF \o B(<<"a">>), MagText(MaxMag["u64"]) \o CRLF \o B(<<"a">>) }

TextInputs == {<<t>> \o tail : t \in FirstBytes, tail \in Tails}

\* Complete wire units: an integer, a bulk string, a null.
UnitInt(d) == B(<<":">>) \o <<48 + d>> \o CRLF
UnitStr(c) == B(<<"$", "1", "CR", "LF", c, "CR", "LF">>)
UnitNull == B(<<"_", "CR", "LF">>)
Units == {UnitInt(1), UnitStr("a"), UnitNull}

\* tag, count, CRLF
Header(t, n) == <<Ord(t)>> \o <<48 + n>> \o CRLF

Repeat(e, k) == IF k = 0 THEN <<>> ELSE IF k = 1 THEN e
                ELSE IF k = 2 THEN e \o e ELSE IF k = 3 THEN e \o e \o e
                ELSE e \o e \o e \o e

\* Array, Set and Push headers that declare n elements, with k that follow:
\* fewer than declared, as many, and more.
ArrayInputs ==
    { Header(t, n) \o Repeat(e, k) :
        t \in {"*", "~", ">"}, n \in 0..MaxCount, k \in 0..MaxCount, e \in Units }
    \cup
    { Header("*", 2) \o UnitInt(1) \o UnitStr("a"),
      Header("*", 3) \o UnitInt(1) \o UnitStr("a") \o UnitInt(2),
      Header("*", 3) \o UnitInt(1) \o UnitStr("a"),
      Header("*", 1) \o UnitInt(1) \o UnitStr("a"),
      Header("*", 2) \o Header("*", 1) \o UnitInt(1) \o Header("*", 1) \o UnitInt(2),
      Header("*", 2) \o Header("*", 1) \o UnitInt(1) }

\* The first k of the pairs a 1, b 2, a 3.
Pairs(k) ==
    SubSeq(<< B(<<"+","a","CR","LF">>) \o UnitInt(1), B(<<"+","b","CR","LF">>) \o UnitInt(2),
              B(<<"+","a","CR","LF">>) \o UnitInt(3) >>, 1, k)

Concat(ss) == IF ss = <<>> THEN <<>> ELSE IF Len(ss) = 1 THEN ss[1]
              ELSE IF Len(ss) = 2 THEN ss[1] \o ss[2] ELSE ss[1] \o ss[2] \o ss[3]

\* Map and Attributes headers that declare n pairs, with k that follow.
MapInputs ==
    { Header(t, n) \o Concat(Pairs(k)) : t \in {"%", "|"}, n \in 0..MaxCount, k \in 0..3 }

\* What follows the header of a map that holds a variant of E: the name and
\* the payload of each kind, well formed and not.
VariantBodies ==
    { UnitStr("N") \o UnitInt(1),
      B(<<"+","T","CR","LF">>) \o Header("*", 2) \o UnitInt(1) \o UnitInt(2),
      B(<<"+","T","CR","LF">>) \o Header("*", 3) \o UnitInt(1) \o UnitInt(2) \o UnitInt(3),
      B(<<"+","S","CR","LF">>) \o Header("%", 2) \o UnitStr("a") \o UnitStr("x")
          \o UnitStr("o") \o UnitInt(7),
      B(<<"+","S","CR","LF">>) \o Header("|", 1) \o UnitStr("a") \o UnitStr("x"),
      B(<<"+","U","CR","LF">>) \o UnitNull,
      B(<<"+","Z","CR","LF">>) \o UnitInt(1),
      <<>> }

\* A Map or Attributes header of every count, then one variant, or the same
\* variant once for each pair declared.
EnumInputs ==
    UNION { { Header(t, n) \o Repeat(body, k) :
                t \in {"%", "|"}, k \in {1, n}, body \in VariantBodies } :
            n \in 0..MaxCount }

\* struct P over the wire: its four fields; three of them and a key it does
\* not have; the same with a pair missing.
StructInputs ==
    { Header("%", 4) \o UnitStr("n") \o UnitStr("x") \o UnitStr("a") \o UnitInt(1)
          \o UnitStr("e") \o UnitStr("U") \o UnitStr("w") \o UnitInt(2),
      Header("%", 4) \o UnitStr("n") \o UnitStr("x") \o UnitStr("a") \o UnitInt(1)
          \o UnitStr("e") \o UnitStr("U") \o UnitStr("z") \o UnitInt(2),
      Header("%", 4) \o UnitStr("n") \o UnitStr("x") \o UnitStr("a") \o UnitInt(1)
          \o UnitStr("e") \o UnitStr("U") }

CompoundInputs == ArrayInputs \cup MapInputs \cup EnumInputs \cup StructInputs

RawInputs == {<<>>} \cup NumberInputs \cup TextInputs \cup CompoundInputs

-----------------------------------------------------------------------------
(* The state machine: one conversion, or one round trip, per behaviour     *)

NoCall == [st |-> "None", val |-> NoVal, err |-> NoError, rest |-> <<>>]
NoSer  == [st |-> "None", out |-> <<>>, err |-> NoError]

\* No LengthSeqVisitor yet, and nothing open on the Serializer.
NoAccess == LengthSeqVisitor(<<0>>)
Closed == [kind |-> "none", len |-> <<>>, done |-> 0, part |-> "key"]

Init ==
    /\ op = "idle"
    /\ shape = 0
    /\ value = NoVal
    /\ ser = NoSer
    /\ bytes = <<>>
    /\ target = 0
    /\ result = NoCall
    /\ access = NoAccess
    /\ open = Closed

\* to_bytes(&v) for a value v of one of the shapes.
ToBytes ==
    /\ op = "idle"
    /\ \E i \in 1..Len(Shapes) : \E v \in Values(Shapes[i]) :
          /\ shape' = i
          /\ value' = v
          /\ ser' = to_bytes(Shapes[i], v)
    /\ op' = "to_bytes"
    /\ UNCHANGED <<bytes, target, result, access, open>>

\* from_bytes::<T>(&output) for the output of to_bytes and the value's shape T.
FromBytes ==
    /\ op = "to_bytes"
    /\ ser.st = "Ok"
    /\ bytes' = ser.out
    /\ target' = shape
    /\ result' = from_bytes(Shapes[shape], ser.out)
    /\ op' = "from_bytes"
    /\ UNCHANGED <<shape, value, ser, access, open>>

\* to_string(&v) for a value v of one of the shapes.
ToStringOf ==
    /\ op = "idle"
    /\ \E i \in 1..Len(Shapes) : \E v \in Values(Shapes[i]) :
          /\ shape' = i
          /\ value' = v
          /\ ser' = to_string(Shapes[i], v)
    /\ op' = "to_string"
    /\ UNCHANGED <<bytes, target, result, access, open>>

\* from_str::<T>(&output) for the output of to_string and the value's shape T.
FromStr ==
    /\ op = "to_string"
    /\ ser.st = "Ok"
    /\ bytes' = ser.out
    /\ target' = shape
    /\ result' = from_str(Shapes[shape], ser.out)
    /\ op' = "from_str"
    /\ UNCHANGED <<shape, value, ser, access, open>>

\* from_bytes::<T>(raw) for a raw input and any of the shapes as T.
FromBytesOfInput ==
    /\ op = "idle"
    /\ \E raw \in RawInputs : \E t \in 1..Len(Shapes) :
          /\ bytes' = raw
          /\ target' = t
          /\ result' = from_bytes(Shapes[t], raw)
    /\ op' = "input"
    /\ UNCHANGED <<shape, value, ser, access, open>>

\* kind.to_prefix_bytes() for one of the kinds of the registry.
ToPrefixBytes ==
    /\ op = "idle"
    /\ \E kind \in RespDataKind :
          /\ value' = kind
          /\ bytes' = <<to_prefix_bytes(kind)>>
    /\ op' = "to_prefix_bytes"
    /\ UNCHANGED <<shape, ser, target, result, access, open>>

\* RespDataKind::from_prefix_bytes of the byte to_prefix_bytes returned.
FromPrefixOfKind ==
    /\ op = "to_prefix_bytes"
    /\ result' = Ok(from_prefix_bytes(bytes[1]), <<>>)
    /\ op' = "from_prefix_of_kind"
    /\ UNCHANGED <<shape, value, ser, bytes, target, access, open>>

\* RespDataKind::from_prefix_bytes(b) for any byte b.
FromPrefixBytes ==
    /\ op = "idle"
    /\ \E b \in 0..255 :
          /\ bytes' = <<b>>
          /\ result' = Ok(from_prefix_bytes(b), <<>>)
    /\ op' = "from_prefix_bytes"
    /\ UNCHANGED <<shape, value, ser, target, access, open>>

\* The shapes a Vec visitor and a map visitor are driven for.
SeqTargets == {t \in 1..Len(Shapes) : Shapes[t].k \in {"seq", "iter"}}
MapTargets == {t \in 1..Len(Shapes) : Shapes[t].k \in {"map", "mapiter"}}

\* deserialize_seq up to visitor.visit_seq(seq_visitor): the header is read
\* and the visitor is handed a new LengthSeqVisitor.
VisitSeq ==
    /\ op = "idle"
    /\ \E raw \in ArrayInputs : \E t \in SeqTargets :
          \E h \in {seq_header(raw)} :
              /\ h.st = "Ok"
              /\ bytes' = raw
              /\ target' = t
              /\ result' = h
              /\ access' = LengthSeqVisitor(h.val)
    /\ op' = "visit_seq"
    /\ UNCHANGED <<shape, value, ser, open>>

\* The visitor calls next_element: after visit_seq, after an element, and
\* again after None.
NextElement ==
    /\ op \in {"visit_seq", "next_element"}
    /\ result.st = "Ok"
    /\ \E r \in {next_element_seed(Shapes[target].of, access, result.rest)} :
          /\ access' = r.access
          /\ result' = r.ret
    /\ op' = "next_element"
    /\ UNCHANGED <<shape, value, ser, bytes, target, open>>

\* deserialize_map up to visitor.visit_map(seq_visitor).
VisitMap ==
    /\ op = "idle"
    /\ \E raw \in MapInputs : \E t \in MapTargets :
          \E h \in {map_header(raw)} :
              /\ h.st = "Ok"
              /\ bytes' = raw
              /\ target' = t
              /\ result' = h
              /\ access' = LengthSeqVisitor(h.val)
    /\ op' = "visit_map"
    /\ UNCHANGED <<shape, value, ser, open>>

\* The visitor calls next_key: after visit_map, after a value, and again
\* after None.
NextKey ==
    /\ \/ op \in {"visit_map", "next_value"}
       \/ op = "next_key" /\ result.val = None
    /\ result.st = "Ok"
    /\ \E r \in {next_key_seed(Shapes[target].key, access, result.rest)} :
          /\ access' = r.access
          /\ result' = r.ret
    /\ op' = "next_key"
    /\ UNCHANGED <<shape, value, ser, bytes, target, open>>

\* The visitor calls next_value for the key it was handed.
NextValue ==
    /\ op = "next_key"
    /\ result.st = "Ok"
    /\ result.val # None
    /\ \E r \in {next_value_seed(Shapes[target].val, access, result.rest)} :
          /\ access' = r.access
          /\ result' = r.ret
    /\ op' = "next_value"
    /\ UNCHANGED <<shape, value, ser, bytes, target, open>>

\* The values handed to a Serializer one call at a time, with their shapes,
\* and the keys of a map.
EncodeCalls ==
    { <<TBool, TRUE>>, <<i64, MinOf("i64")>>, <<TStr, B(<<"a", "CR", "LF">>)>>,
      <<TOption(u8), None>>, <<E, <<B(<<"T">>), <<Zero, Zero>>>>>>,
      <<TMapIter(TStr, u8), EmptyMap>> }
EncodeKeys == { <<TStr, <<>>>>, <<TStr, B(<<"a">>)>> }

\* The lengths serialize_seq and serialize_map are called with: None, and
\* Some of 0..MaxSeqLen.
Lens == {<<>>} \cup {<<n>> : n \in 0..MaxSeqLen}

ShapeIndex(T) == CHOOSE i \in 1..Len(Shapes) : Shapes[i] = T

\* The output of the Serializer before the first call on it.
Output == IF ser.st = "None" THEN <<>> ELSE ser.out

\* v.serialize(&mut serializer) on a new Serializer, for a value that is no
\* part of a sequence or map.
SerializeValue ==
    /\ op = "idle"
    /\ \E c \in EncodeCalls :
          /\ shape' = ShapeIndex(c[1])
          /\ value' = c[2]
          /\ ser' = serialize(c[1], c[2], Output)
    /\ op' = "serialize"
    /\ UNCHANGED <<bytes, target, result, access, open>>

\* Whether a sequence or map may be started on the Serializer: it is new, or
\* one value has been written to it.
MayStart ==
    \/ op = "idle"
    \/ op = "serialize" /\ ser.st = "Ok"

\* serializer.serialize_seq(len)
SerializeSeqStart ==
    /\ MayStart
    /\ \E len \in Lens :
          /\ ser' = serialize_seq(Output, len)
          /\ open' = [kind |-> "seq", len |-> len, done |-> 0, part |-> "key"]
    /\ op' = "serialize_seq"
    /\ UNCHANGED <<shape, value, bytes, target, result, access>>

\* serializer.serialize_tuple_variant(.., "T", 2) for the variant T of E.
SerializeTupleVariantStart ==
    /\ MayStart
    /\ ser' = serialize_tuple_variant(Output, B(<<"T">>), 2)
    /\ open' = [kind |-> "seq", len |-> <<2>>, done |-> 0, part |-> "key"]
    /\ op' = "serialize_tuple_variant"
    /\ UNCHANGED <<shape, value, bytes, target, result, access>>

\* serializer.serialize_map(len): with None it fails and nothing is open.
SerializeMapStart ==
    /\ MayStart
    /\ \E len \in Lens :
          /\ ser' = serialize_map(Output, len)
          /\ open' = IF len = <<>> THEN Closed
                     ELSE [kind |-> "map", len |-> len, done |-> 0, part |-> "key"]
    /\ op' = "serialize_map"
    /\ UNCHANGED <<shape, value, bytes, target, result, access>>

\* How many elements or entries the open sequence or map still takes.
MayTakeMore ==
    IF open.len = <<>> THEN open.done < MaxSeqLen ELSE open.done < open.len[1]

\* SerializeSeq::serialize_element(&value): value.serialize(&mut **self)
SerializeElement ==
    /\ open.kind = "seq"
    /\ ser.st = "Ok"
    /\ MayTakeMore
    /\ \E c \in EncodeCalls :
          /\ shape' = ShapeIndex(c[1])
          /\ value' = c[2]
          /\ ser' = serialize(c[1], c[2], ser.out)
    /\ open' = [open EXCEPT !.done = @ + 1]
    /\ op' = "serialize_element"
    /\ UNCHANGED <<bytes, target, result, access>>

\* SerializeMap::serialize_key(&key)
SerializeKey ==
    /\ open.kind = "map"
    /\ open.part = "key"
    /\ ser.st = "Ok"
    /\ MayTakeMore
    /\ \E c \in EncodeKeys :
          /\ shape' = ShapeIndex(c[1])
          /\ value' = c[2]
          /\ ser' = serialize(c[1], c[2], ser.out)
    /\ open' = [open EXCEPT !.part = "value"]
    /\ op' = "serialize_key"
    /\ UNCHANGED <<bytes, target, result, access>>

\* SerializeMap::serialize_value(&value)
SerializeValueOfKey ==
    /\ open.kind = "map"
    /\ open.part = "value"
    /\ ser.st = "Ok"
    /\ \E c \in EncodeCalls :
          /\ shape' = ShapeIndex(c[1])
          /\ value' = c[2]
          /\ ser' = serialize(c[1], c[2], ser.out)
    /\ open' = [open EXCEPT !.part = "key", !.done = @ + 1]
    /\ op' = "serialize_value"
    /\ UNCHANGED <<bytes, target, result, access>>

\* SerializeSeq::end / SerializeMap::end, when every element or entry the
\* length promised has been written.
End ==
    /\ open.kind \in {"seq", "map"}
    /\ open.part = "key"
    /\ ser.st = "Ok"
    /\ IF open.len = <<>> THEN TRUE ELSE open.done = open.len[1]
    /\ ser' = end(ser.out)
    /\ open' = Closed
    /\ op' = "end"
    /\ UNCHANGED <<shape, value, bytes, target, result, access>>

Next ==
    \/ ToBytes \/ FromBytes \/ ToStringOf \/ FromStr \/ FromBytesOfInput
    \/ ToPrefixBytes \/ FromPrefixOfKind \/ FromPrefixBytes
    \/ VisitSeq \/ NextElement \/ VisitMap \/ NextKey \/ NextValue
    \/ SerializeValue \/ SerializeSeqStart \/ SerializeTupleVariantStart
    \/ SerializeMapStart \/ SerializeElement \/ SerializeKey
    \/ SerializeValueOfKey \/ End

Spec == Init /\ [][Next]_vars

-----------------------------------------------------------------------------
(* Properties                                                              *)

\* The shape that was encoded, and the shape that was asked of the decoder.
Encoded == Shapes[shape]
Target  == Shapes[target]

\* Shapes with no lossy case: named-field structs, enums, Vecs, Option of a
\* type that is neither () nor an Option, strings, integers of up to 64 bits.
RECURSIVE CompoundShape(_)
CompoundShape(T) ==
    CASE T.k = "int"    -> Bits[T.ty] <= 64
      [] T.k = "str"    -> TRUE
      [] T.k = "option" -> T.of.k \notin {"unit", "option"} /\ CompoundShape(T.of)
      [] T.k = "seq"    -> CompoundShape(T.of)
      [] T.k = "struct" -> \A i \in 1..Len(T.fields) : CompoundShape(T.fields[i].ty)
      [] T.k = "enum"   ->
           \A i \in 1..Len(T.variants) :
              \/ T.variants[i].kind = "unit"
              \/ T.variants[i].kind = "newtype" /\ CompoundShape(T.variants[i].ty)
              \/ /\ T.variants[i].kind = "tuple"
                 /\ \A j \in 1..Len(T.variants[i].ty) : CompoundShape(T.variants[i].ty[j])
              \/ /\ T.variants[i].kind = "struct"
                 /\ \A j \in 1..Len(T.variants[i].ty) :
                       CompoundShape(T.variants[i].ty[j].ty)
      [] OTHER          -> FALSE

\* C1: for every value of a shape with no lossy case (structs, enums with
\* unit, newtype, tuple and struct variants, Vecs, Option of a non-unit
\* non-Option type, strings, integers of up to 64 bits), to_string succeeds
\* and from_str of its output returns Ok of the same value.
C1_CompoundRoundTrip ==
    (shape # 0 /\ CompoundShape(Encoded)) =>
        /\ op = "to_string" => ser.st = "Ok"
        /\ op = "from_str"  => result.st = "Ok" /\ result.val = value

\* A struct P holding the struct variant S of E with Some in it, and Some in
\* its own Option field, came back from from_str.
C1_Witness ==
    /\ op = "from_str"
    /\ Encoded = P
    /\ value[3][1] = <<83>>
    /\ value[3][2][2] # None
    /\ value[4] # None
    /\ result.st = "Ok"
    /\ result.val = value

IntShape64(T) == T.k = "int" /\ Bits[T.ty] <= 64

\* C2: for each of i8, i16, i32, i64, isize, u8, u16, u32, u64, usize and
\* every value of it, its minimum and maximum included, to_bytes succeeds and
\* from_bytes of its output returns Ok of the same value, all input consumed.
C2_IntegerRoundTrip ==
    (shape # 0 /\ IntShape64(Encoded)) =>
        /\ op = "to_bytes"   => ser.st = "Ok"
        /\ op = "from_bytes" =>
              result.st = "Ok" /\ result.val = value /\ result.rest = <<>>

\* i64::MIN came back from from_bytes.
C2_Witness ==
    /\ op = "from_bytes"
    /\ Encoded = TInt("i64")
    /\ value = [neg |-> TRUE, mag |-> <<9,2,2,3,3,7,2,0,3,6,8,5,4,7,7,5,8,0,8>>]
    /\ result.st = "Ok"
    /\ result.val = value

\* The canonical decimal text of an integer: '-' for a negative value, then
\* the digits of the magnitude, which has no leading zero.
CanonicalDecimal(v) ==
    (IF v.neg THEN <<45>> ELSE <<>>) \o [i \in 1..Len(v.mag) |-> 48 + v.mag[i]]

\* C3: the tag of an encoded integer depends on its type only: '(' for u64
\* and usize, ':' for i8, i16, i32, i64, isize, u8, u16 and u32; after the
\* tag come the canonical decimal text of the value and CRLF, nothing else.
C3_TagByIntegerType ==
    (op \in {"to_bytes", "to_string"} /\ IntShape64(Encoded)) =>
        /\ ser.st = "Ok"
        /\ ser.out = <<IF Encoded.ty \in {"u64", "usize"} THEN 40 ELSE 58>>
                     \o CanonicalDecimal(value) \o <<13, 10>>

\* The u64 value 42, which fits in an i64, went out as (42 CRLF.
C3_Witness ==
    /\ op = "to_bytes"
    /\ Encoded = TInt("u64")
    /\ value = [neg |-> FALSE, mag |-> <<4, 2>>]
    /\ ser.out = <<40, 52, 50, 13, 10>>

\* An integer token: an optional sign and one or more digits.
IsIntegerToken(tok) ==
    /\ tok # <<>>
    /\ LET digits == IF tok[1] \in {43, 45} THEN Tail(tok) ELSE tok
       IN  digits # <<>> /\ \A i \in 1..Len(digits) : digits[i] \in 48..57

\* The value an integer token denotes.
TokenValue(tok) ==
    LET digits == IF tok[1] \in {43, 45} THEN Tail(tok) ELSE tok
        mag    == StripZeros([i \in 1..Len(digits) |-> digits[i] - 48])
    IN  [neg |-> tok[1] = 45 /\ mag # <<0>>, mag |-> mag]

\* The token of an input: what lies between its first byte and its last two.
Token == SubSeq(bytes, 2, Len(bytes) - 2)

\* from_bytes was handed an Integer or BigNumber tag, an integer token and
\* CRLF, and asked for an integer.
IntegerInput ==
    /\ op = "input"
    /\ Target.k = "int"
    /\ Len(bytes) >= 3
    /\ bytes[1] \in {58, 40}
    /\ SubSeq(bytes, Len(bytes) - 1, Len(bytes)) = <<13, 10>>
    /\ IsIntegerToken(Token)

\* C4 as the specification states it: decoding an Integer or BigNumber token
\* into an integer target succeeds exactly when the value fits the target,
\* i128 included.
C4_AsStated ==
    IntegerInput => (result.st = "Ok" <=> InRange(Target.ty, TokenValue(Token)))

\* C4: decoding an Integer or BigNumber token into an integer target of 8 to
\* 64 bits or pointer size succeeds, with the token's value, exactly when the
\* value fits the target and, for an unsigned target, the token has no '-'
\* sign; into i128 or u128 it fails whatever the value.
C4_CoercionBoundary ==
    IntegerInput =>
        IF Bits[Target.ty] = 128 THEN result.st = "Err"
        ELSE /\ result.st = "Ok" <=>
                   /\ InRange(Target.ty, TokenValue(Token))
                   /\ (Signed[Target.ty] \/ Token[1] # 45)
             /\ result.st = "Ok" => result.val = TokenValue(Token)
             /\ result.st \in {"Ok", "Err"}

\* (128 CRLF, which overflows i8, was decoded into i128 and failed.
C4_Witness ==
    /\ op = "input"
    /\ bytes = <<40, 49, 50, 56, 13, 10>>
    /\ Target = TInt("i128")
    /\ result.st = "Err"

\* C5 as the claim states it: i128 and u128 fail on every Integer or
\* BigNumber input, and every narrower integer type that can hold the value
\* decodes it.
C5_AsStated ==
    IntegerInput =>
        IF Bits[Target.ty] = 128 THEN result.st = "Err"
        ELSE InRange(Target.ty, TokenValue(Token)) => result.st = "Ok"

\* C5: from_bytes into i128 or u128 fails on every Integer or BigNumber input
\* with a DeserializeError and consumes nothing; the same input decodes, to
\* the token's value, into every integer type of 8 to 64 bits or pointer size
\* that can hold the value, provided that the token has no '-' sign when the
\* type is unsigned.
C5_No128BitTargets ==
    IntegerInput =>
        IF Bits[Target.ty] = 128
        THEN /\ result.st = "Err"
             /\ result.err.kind = "DeserializeError"
             /\ result.rest = bytes
        ELSE (InRange(Target.ty, TokenValue(Token)) /\ (Signed[Target.ty] \/ Token[1] # 45))
             => (result.st = "Ok" /\ result.val = TokenValue(Token))

\* :42 CRLF was decoded into u128 and failed.
C5_Witness ==
    /\ op = "input"
    /\ bytes = <<58, 52, 50, 13, 10>>
    /\ Target = TInt("u128")
    /\ result.st = "Err"
    /\ result.err.kind = "DeserializeError"

\* The prefix bytes of the numeric tags : , ( and of the others by family.
NumericTags == {58, 44, 40}
StringTags  == {43, 45, 36, 33, 61}
OtherTags   == {95, 35, 42, 126, 62, 37, 124}

EndsWithCRLF == Len(bytes) >= 3 /\ SubSeq(bytes, Len(bytes) - 1, Len(bytes)) = <<13, 10>>

\* The index of the first CRLF of the input, 0 when it has none.
FirstCRLF ==
    LET at(i) == bytes[i] = 13 /\ bytes[i + 1] = 10
    IN  IF \E i \in 1..(Len(bytes) - 1) : at(i)
        THEN CHOOSE i \in 1..(Len(bytes) - 1) : at(i) /\ \A j \in 1..(i - 1) : ~at(j)
        ELSE 0

\* The decoder turned the input down for its first byte.
RejectedTag(expected) ==
    /\ result.st = "Err"
    /\ result.err = [kind |-> "UnexpectedByte", expected |-> expected, found |-> bytes[1]]

C7_OptionCollapses ==
    /\ (op \in {"to_bytes", "to_string"} /\ Encoded.k = "option") =>
          /\ ser.st = "Ok"
          /\ value = <<>>  => ser.out = <<95, 13, 10>>
          /\ value # <<>>  => ser.out = to_bytes(Encoded.of, value[1]).out
    /\ (shape # 0 /\ Encoded = TOption(TUnit)) =>
          /\ op \in {"to_bytes", "to_string"} => ser.out = <<95, 13, 10>>
          /\ op \in {"from_bytes", "from_str"} => result.st = "Ok" /\ result.val = <<>>
    /\ (op = "input" /\ Target.k = "option") =>
          IF bytes # <<>> /\ bytes[1] = 95
          THEN /\ result.st = "Ok" => result.val = <<>>
               /\ (Len(bytes) >= 3 /\ SubSeq(bytes, 1, 3) = <<95, 13, 10>>) =>
                     /\ result.st = "Ok"
                     /\ result.rest = SubSeq(bytes, 4, Len(bytes))
          ELSE LET inner == from_bytes(Target.of, bytes)
               IN  IF inner.st = "Ok"
                   THEN /\ result.st = "Ok"
                        /\ result.val = <<inner.val>>
                        /\ result.rest = inner.rest
                   ELSE result = inner

\* Some(()) went out as _ CRLF and came back as None.
C7_Witness ==
    /\ op = "from_bytes"
    /\ Encoded = TOption(TUnit)
    /\ value = <<"()">>
    /\ bytes = <<95, 13, 10>>
    /\ result.st = "Ok"
    /\ result.val = <<>>

\* The prefix bytes of the bulk family: $ ! =
BulkTags == {36, 33, 61}

\* C8: under each of the tags $ ! = a String decoded from tag, -1, CRLF is
\* the empty string and exactly those five bytes are consumed; tag, 0, CRLF,
\* CRLF decodes to the same empty string.
C8_NullBulkSentinel ==
    (op = "input" /\ Target = TStr /\ bytes # <<>> /\ bytes[1] \in BulkTags) =>
        /\ (Len(bytes) >= 5 /\ SubSeq(bytes, 2, 5) = <<45, 49, 13, 10>>) =>
              /\ result.st = "Ok"
              /\ result.val = <<>>
              /\ result.rest = SubSeq(bytes, 6, Len(bytes))
        /\ Tail(bytes) = <<48, 13, 10, 13, 10>> =>
              /\ result.st = "Ok"
              /\ result.val = <<>>
              /\ result.rest = <<>>

\* ! -1 CRLF a was decoded into a String: the empty string, and a is left.
C8_Witness ==
    /\ op = "input"
    /\ Target = TStr
    /\ bytes = <<33, 45, 49, 13, 10, 97>>
    /\ result.st = "Ok"
    /\ result.val = <<>>
    /\ result.rest = <<97>>

\* The decimal text of a length below 100.
LengthText(n) == IF n < 10 THEN <<48 + n>> ELSE <<48 + (n \div 10), 48 + (n % 10)>>

\* C9: to_string of a string s is $, the byte length of s, CRLF, s, CRLF, and
\* from_str of it returns Ok(s), whatever CR, LF or CRLF s holds.  A String
\* decoded from $, a one-digit length n, CRLF and at least n more bytes is
\* those n bytes when CRLF follows them and they are UTF-8, and an error
\* otherwise: a CRLF among the n bytes ends nothing.
C9_BulkLengthFramed ==
    /\ (op \in {"to_string", "to_bytes"} /\ Encoded = TStr) =>
          /\ ser.st = "Ok"
          /\ ser.out = <<36>> \o LengthText(Len(value)) \o <<13, 10>> \o value \o <<13, 10>>
    /\ (op \in {"from_str", "from_bytes"} /\ Encoded = TStr) =>
          /\ result.st = "Ok"
          /\ result.val = value
          /\ result.rest = <<>>
    /\ (/\ op = "input"
        /\ Target = TStr
        /\ Len(bytes) >= 4
        /\ bytes[1] = 36
        /\ bytes[2] \in 48..57
        /\ SubSeq(bytes, 3, 4) = <<13, 10>>
        /\ Len(bytes) >= 4 + (bytes[2] - 48)) =>
          LET n == bytes[2] - 48
              payload == SubSeq(bytes, 5, 4 + n)
          IN  IF /\ Len(bytes) >= 6 + n
                 /\ bytes[5 + n] = 13
                 /\ bytes[6 + n] = 10
                 /\ utf8_valid(payload)
              THEN /\ result.st = "Ok"
                   /\ result.val = payload
                   /\ result.rest = SubSeq(bytes, 7 + n, Len(bytes))
              ELSE result.st = "Err"

\* A string of 13 bytes with CRLF CRLF $1 CRLF a CRLF in it came back from
\* from_str.
C9_Witness ==
    /\ op = "from_str"
    /\ Encoded = TStr
    /\ value = <<13, 10, 13, 10, 36, 49, 13, 10, 97, 13, 10, 195, 169>>
    /\ result.st = "Ok"
    /\ result.val = value

\* C10 as the specification states it: from_bytes returns Ok or an Err of
\* the taxonomy for every input and every shape, a bulk length larger than
\* what remains included.
C10_NeverAborts ==
    op \in {"input", "from_bytes", "from_str"} =>
        \/ result.st = "Ok"
        \/ /\ result.st = "Err"
           /\ result.err.kind \in {"UnexpectedEnd", "UnexpectedByte", "UnrecognizedStart",
                                   "ExpectedLength", "InvalidUtf8", "DeserializeError"}

-----------------------------------------------------------------------------
(* Sequences, maps and enums over the wire                                 *)

\* The prefix bytes of Array, Set and Push, and of Map and Attributes.
SeqTags == {42, 126, 62}
MapTags == {37, 124}

\* The complete wire units that decode as an element of shape T: an integer
\* unit for an integer, an integer or bulk unit for a String, an integer or
\* null unit for an Option of an integer.
ElementsFor(T) ==
    CASE T.k = "int" -> {UnitInt(1)}
      [] T.k = "str" -> {UnitInt(1), UnitStr("a")}
      [] T.k = "option" /\ T.of.k = "int" -> {UnitInt(1), UnitNull}
      [] OTHER -> {}

\* The input is an Array, Set or Push header that declares n elements, then
\* k complete elements of the target's element shape, then nothing.
ArrayOf(n, k) ==
    /\ op = "input"
    /\ Target.k \in {"seq", "iter"}
    /\ Len(bytes) >= 4
    /\ bytes[1] \in SeqTags
    /\ bytes[2] = 48 + n
    /\ \E e \in ElementsFor(Target.of) : Drop(bytes, 2) = CRLF \o Repeat(e, k)

\* C11: an Array, Set or Push that declares n >= 1 elements and is followed
\* by k < n complete elements and the end of the input, decoded into a
\* sequence of integers, strings or options, fails with UnexpectedEnd; with
\* k = n it gives the k elements.
C11_LengthExactness ==
    \A n \in 1..(MaxCount + 1) : \A k \in 0..n :
        ArrayOf(n, k) =>
            IF k < n THEN result.st = "Err" /\ result.err = Error("UnexpectedEnd")
            ELSE result.st = "Ok" /\ Len(result.val) = n /\ result.rest = <<>>

\* ~3 CRLF and two null units were decoded into a Vec<Option<u8>>:
\* UnexpectedEnd.
C11_Witness ==
    /\ ArrayOf(3, 2)
    /\ bytes[1] = 126
    /\ Target = TSeq(TOption(u8))
    /\ Drop(bytes, 4) = UnitNull \o UnitNull
    /\ result.st = "Err"
    /\ result.err.kind = "UnexpectedEnd"

\* What is left of an input after one complete wire unit, by the framing of
\* its tag alone: a line up to CRLF; a bulk of the declared length, or the
\* null bulk; a boolean; a null; a count and as many units, or pairs of units.
\* Malformed is what is left when the input does not start with one.
Malformed == <<-1>>

LeadingDigits(inp) ==
    IF \E i \in 1..Len(inp) : inp[i] \notin 48..57
    THEN (CHOOSE i \in 1..Len(inp) : inp[i] \notin 48..57 /\ \A j \in 1..(i - 1) : inp[j] \in 48..57) - 1
    ELSE Len(inp)

\* The count or length an input starts with, -1 when it starts with none or
\* with one of more than two digits.
Declared(inp) ==
    Let(LeadingDigits(inp), LAMBDA d :
        IF d = 1 THEN inp[1] - 48
        ELSE IF d = 2 THEN 10 * (inp[1] - 48) + (inp[2] - 48)
        ELSE -1)

AfterCRLF(inp) == IF Len(inp) >= 2 /\ inp[1] = 13 /\ inp[2] = 10 THEN Drop(inp, 2) ELSE Malformed

AfterLine(inp) ==
    IF \E i \in 1..(Len(inp) - 1) : inp[i] = 13 /\ inp[i + 1] = 10
    THEN Drop(inp, 1 + CHOOSE i \in 1..(Len(inp) - 1) :
                         /\ inp[i] = 13 /\ inp[i + 1] = 10
                         /\ \A j \in 1..(i - 1) : ~(inp[j] = 13 /\ inp[j + 1] = 10))
    ELSE Malformed

AfterBulk(inp) ==
    IF Len(inp) >= 4 /\ SubSeq(inp, 1, 4) = <<45, 49, 13, 10>> THEN Drop(inp, 4)
    ELSE Let(Declared(inp), LAMBDA n :
         Let(AfterCRLF(Drop(inp, LeadingDigits(inp))), LAMBDA payload :
             IF n < 0 \/ payload = Malformed \/ Len(payload) < n THEN Malformed
             ELSE AfterCRLF(Drop(payload, n))))

RECURSIVE AfterUnit(_)
RECURSIVE AfterUnits(_, _)
AfterUnits(inp, n) ==
    IF inp = Malformed THEN Malformed
    ELSE IF n = 0 THEN inp
    ELSE AfterUnits(AfterUnit(inp), n - 1)

AfterUnit(inp) ==
    IF inp = <<>> \/ inp = Malformed THEN Malformed
    ELSE IF inp[1] \in {43, 45, 58, 44, 40} THEN AfterLine(Tail(inp))
    ELSE IF inp[1] \in BulkTags THEN AfterBulk(Tail(inp))
    ELSE IF inp[1] = 35
         THEN (IF Len(inp) >= 2 THEN AfterCRLF(Drop(inp, 2)) ELSE Malformed)
    ELSE IF inp[1] = 95 THEN AfterCRLF(Tail(inp))
    ELSE IF inp[1] \in SeqTags \cup MapTags
         THEN Let(Declared(Tail(inp)), LAMBDA n :
                  IF n < 0 THEN Malformed
                  ELSE AfterUnits(AfterCRLF(Drop(inp, 1 + LeadingDigits(Tail(inp)))),
                                  IF inp[1] \in SeqTags THEN n ELSE 2 * n))
    ELSE Malformed

\* C12 as the claim states it: after a successful decode the cursor stands
\* right after the one wire unit the input starts with, all the elements or
\* pairs it declares included, whatever the target shape: a Vec, a tuple, a
\* tuple variant, a struct, a map, a byte buffer.
C12_ExactConsumption ==
    (op = "input" /\ bytes # <<>> /\ result.st = "Ok") => result.rest = AfterUnit(bytes)

\* C13 as the claim states it: a sequence serialized without a length known
\* ahead goes out as *-1 CRLF and its elements, and decoding that output as
\* a sequence of the same element type returns the elements.
C13_UnknownLengthRoundTrip ==
    (shape # 0 /\ Encoded.k = "iter") =>
        /\ op \in {"to_bytes", "to_string"} =>
              /\ ser.st = "Ok"
              /\ Take(ser.out, 5) = <<42, 45, 49, 13, 10>>
        /\ op \in {"from_bytes", "from_str"} => result.st = "Ok" /\ result.val = value

\* The input is a Map or Attributes tag and a count that fits a usize, then
\* something that is no digit, and an enum is asked for.
EnumOverMap ==
    /\ op = "input"
    /\ Target.k = "enum"
    /\ Len(bytes) >= 3
    /\ bytes[1] \in MapTags
    /\ LeadingDigits(Tail(bytes)) \in 1..(Len(bytes) - 2)
    /\ MagLE(StripZeros([i \in 1..LeadingDigits(Tail(bytes)) |-> bytes[i + 1] - 48]),
             MaxMag["usize"])

\* The count such an input declares, as a magnitude.
DeclaredPairs == StripZeros([i \in 1..LeadingDigits(Tail(bytes)) |-> bytes[i + 1] - 48])

\* What follows the count and CRLF of such an input.
AfterHeader == AfterCRLF(Drop(bytes, 1 + LeadingDigits(Tail(bytes))))

\* C14: an enum decoded from a Map or Attributes whose count is not 1 fails
\* with DeserializeError whatever variant follows, and nothing after the
\* count has been read; with a count of 1 the key is the variant's name and
\* the value its payload: N(u32) from a unit, T(u8, i64) from an array,
\* S { a, o } from a map, and an error for the unit variant U and for a name
\* E does not have.
C14_EnumFraming ==
    EnumOverMap =>
        IF DeclaredPairs # <<1>>
        THEN /\ result.st = "Err"
             /\ result.err =
                   DeserializeError("Expected a single key-value pair for enum variant")
             /\ result.rest = Drop(bytes, 1 + LeadingDigits(Tail(bytes)))
        ELSE /\ AfterHeader = UnitStr("N") \o UnitInt(1) =>
                   result.st = "Ok" /\ result.val = <<B(<<"N">>), <<Nat2Int(1)>>>>
             /\ AfterHeader = B(<<"+","T","CR","LF">>) \o Header("*", 2)
                                 \o UnitInt(1) \o UnitInt(2) =>
                   /\ result.st = "Ok"
                   /\ result.val = <<B(<<"T">>), <<Nat2Int(1), Nat2Int(2)>>>>
                   /\ result.rest = <<>>
             /\ AfterHeader = B(<<"+","S","CR","LF">>) \o Header("%", 2) \o UnitStr("a")
                                 \o UnitStr("x") \o UnitStr("o") \o UnitInt(7) =>
                   /\ result.st = "Ok"
                   /\ result.val = <<B(<<"S">>), <<B(<<"x">>), Some(Nat2Int(7))>>>>
             /\ AfterHeader = B(<<"+","U","CR","LF">>) \o UnitNull =>
                   result.st = "Err" /\ result.err.kind = "DeserializeError"
             /\ AfterHeader = B(<<"+","Z","CR","LF">>) \o UnitInt(1) =>
                   result.st = "Err" /\ result.err.kind = "DeserializeError"
             /\ result.st = "Err" => result.err.expected #
                   "Expected a single key-value pair for enum variant"

\* %2 CRLF and the newtype variant N twice were decoded into E:
\* DeserializeError, with CRLF and both pairs unread.
C14_Witness ==
    /\ EnumOverMap
    /\ bytes = Header("%", 2) \o UnitStr("N") \o UnitInt(1) \o UnitStr("N") \o UnitInt(1)
    /\ result.st = "Err"
    /\ result.err.kind = "DeserializeError"
    /\ result.rest = Drop(bytes, 2)

\* An integer as an Integer unit and a string as a BulkString unit, written
\* out byte by byte.
IntUnit(v) == <<58>> \o CanonicalDecimal(v) \o <<13, 10>>
BulkUnit(t) == <<36>> \o LengthText(Len(t)) \o <<13, 10>> \o t \o <<13, 10>>

\* C15: the unit variant U of E is encoded as the BulkString U and nothing
\* else; N(u32), T(u8, i64) and S { a: String, o: Option<u16> } are encoded
\* as %1 CRLF, the variant's name as a BulkString, and the payload: the
\* integer, *2 and the two integers, %2 and the two fields by name.
C15_EnumEncoding ==
    (op \in {"to_bytes", "to_string"} /\ Encoded = E) =>
        /\ ser.st = "Ok"
        /\ ser.out =
             CASE value[1] = <<85>> -> BulkUnit(<<85>>)
               [] value[1] = <<78>> ->
                    <<37, 49, 13, 10>> \o BulkUnit(<<78>>) \o IntUnit(value[2][1])
               [] value[1] = <<84>> ->
                    <<37, 49, 13, 10>> \o BulkUnit(<<84>>) \o <<42, 50, 13, 10>>
                       \o IntUnit(value[2][1]) \o IntUnit(value[2][2])
               [] value[1] = <<83>> ->
                    <<37, 49, 13, 10>> \o BulkUnit(<<83>>) \o <<37, 50, 13, 10>>
                       \o BulkUnit(<<97>>) \o BulkUnit(value[2][1])
                       \o BulkUnit(<<111>>)
                       \o (IF value[2][2] = <<>> THEN <<95, 13, 10>>
                           ELSE IntUnit(value[2][2][1]))
        /\ AfterUnit(ser.out) = <<>>

\* The tuple variant T(255, i64::MIN) went out as one pair: the name T and
\* an array of two.
C15_Witness ==
    /\ op = "to_bytes"
    /\ Encoded = E
    /\ value = <<B(<<"T">>), <<MaxOf("u8"), MinOf("i64")>>>>
    /\ ser.st = "Ok"
    /\ Take(ser.out, 12) = B(<<"%","1","CR","LF","$","1","CR","LF","T","CR","LF","*">>)

\* The entry of a map value under a key, as two units, when it has the key.
EntryUnits(m, key) ==
    IF key \in DOMAIN m THEN BulkUnit(key) \o IntUnit(m[key]) ELSE <<>>

\* C16: a map started without a known length fails with SerializeError and
\* the output holds what was written before the map and no byte of it: none
\* at the top level, *2 CRLF and the first item inside a tuple.  A map of n
\* entries goes out as %, n, CRLF and the n pairs in key order, and the
\* struct P as %4 CRLF and its four fields.
C16_MapNeedsLength ==
    (op \in {"to_bytes", "to_string"}) =>
        /\ Encoded.k = "mapiter" =>
              /\ ser.st = "Err"
              /\ ser.err = SerializeError("Cannot serialize a map with unknown length")
              /\ ser.out = <<>>
        /\ (Encoded.k = "tuple" /\ Encoded.items[2].k = "mapiter") =>
              /\ ser.st = "Err"
              /\ ser.err = SerializeError("Cannot serialize a map with unknown length")
              /\ ser.out = <<42, 50, 13, 10>> \o IntUnit(value[1])
        /\ Encoded.k = "map" =>
              /\ ser.st = "Ok"
              /\ ser.out = <<37, 48 + Cardinality(DOMAIN value), 13, 10>>
                             \o EntryUnits(value, <<>>)
                             \o EntryUnits(value, <<97, 13, 10>>)
        /\ Encoded = P =>
              /\ ser.st = "Ok"
              /\ Take(ser.out, 11) = <<37, 52, 13, 10>> \o BulkUnit(<<110>>)
              /\ AfterUnit(ser.out) = <<>>

\* A tuple of 255 and a map without a known length: SerializeError, and the
\* output ends with the 255.
C16_Witness ==
    /\ op = "to_bytes"
    /\ Encoded = TTuple(<<u8, TMapIter(TStr, u8)>>)
    /\ value[1] = MaxOf("u8")
    /\ ser.st = "Err"
    /\ ser.err.kind = "SerializeError"
    /\ ser.out = B(<<"*","2","CR","LF",":","2","5","5","CR","LF">>)

\* The encoded shape holds a map whose length is not known ahead, or an
\* integer of 128 bits.
HoldsUnknownMap ==
    \/ Encoded.k = "mapiter"
    \/ Encoded.k = "tuple" /\ \E i \in 1..Len(Encoded.items) : Encoded.items[i].k = "mapiter"
Holds128 == Encoded.k = "int" /\ Bits[Encoded.ty] = 128

\* C17 as the claim states it: to_bytes and to_string return an error when a
\* map is started without a known length and Ok for every other value,
\* integers of 128 bits and byte strings that are not UTF-8 included.
C17_AsStated ==
    (op \in {"to_bytes", "to_string"}) => (ser.st = "Err" <=> HoldsUnknownMap)

\* C17: to_bytes returns a SerializeError when a map is started without a
\* known length and when the value is an i128 or u128, and Ok for every other
\* value, byte strings that are not UTF-8 and sequences of unknown length
\* included; to_string fails in the same cases and, with InvalidUtf8, when
\* the bytes written are not UTF-8.
C17_EncodeFailures ==
    /\ op = "to_bytes" =>
          /\ ser.st = "Err" <=> (HoldsUnknownMap \/ Holds128)
          /\ ser.st = "Err" => ser.err.kind = "SerializeError"
    /\ op = "to_string" =>
          /\ ser.st = "Err" <=>
                (HoldsUnknownMap \/ Holds128 \/ (Encoded.k = "bytes" /\ ~utf8_valid(value)))
          /\ ser.st = "Err" =>
                ser.err.kind = IF Encoded.k = "bytes" THEN "InvalidUtf8" ELSE "SerializeError"
    /\ op \in {"to_bytes", "to_string"} => ser.st \in {"Ok", "Err"}

\* to_string of the byte string FF failed with InvalidUtf8.
C17_Witness ==
    /\ op = "to_string"
    /\ Encoded = TBytes
    /\ value = <<255>>
    /\ ser.st = "Err"
    /\ ser.err.kind = "InvalidUtf8"

-----------------------------------------------------------------------------
(* The first byte of the input                                             *)

\* An integer of 128 bits is asked for: it fails before the input is read.
Target128 == Target.k = "int" /\ Bits[Target.ty] = 128

\* C18 as the claim states it: whatever shape is asked for, a byte buffer
\* included (and the integers of 128 bits aside), decoding the empty input
\* fails with UnexpectedEnd.
C18_EmptyInput ==
    (op = "input" /\ bytes = <<>> /\ ~Target128) =>
        result.st = "Err" /\ result.err = Error("UnexpectedEnd")

\* C19 as the claim states it: whatever shape is asked for (a byte buffer,
\* which reads no prefix at all, and the integers of 128 bits aside), an
\* input whose first byte is none of the 15 prefix bytes fails with
\* UnrecognizedStart and with no other kind.
C19_UnregisteredFirstByte ==
    (/\ op = "input"
     /\ bytes # <<>>
     /\ bytes[1] \notin NumericTags \cup StringTags \cup OtherTags
     /\ Target.k # "bytes"
     /\ ~Target128) =>
        result.st = "Err" /\ result.err = Error("UnrecognizedStart")

-----------------------------------------------------------------------------
(* Numeric tokens that do not parse                                        *)

\* The bytes of 0123456789+-.eE
NumericChars == (48..57) \cup {43, 45, 46, 101, 69}

\* How many bytes of the numeric character class follow the prefix byte.
TokenLen ==
    IF \E i \in 2..Len(bytes) : bytes[i] \notin NumericChars
    THEN (CHOOSE i \in 2..Len(bytes) :
             bytes[i] \notin NumericChars /\ \A j \in 2..(i - 1) : bytes[j] \in NumericChars) - 2
    ELSE Len(bytes) - 1

\* The token that was scanned: those bytes.
Scanned == SubSeq(bytes, 2, 1 + TokenLen)

AllDigits(t) == \A i \in 1..Len(t) : t[i] \in 48..57

\* digits, with a point somewhere among, before or after them
IsMantissa(t) ==
    \E m \in 0..Len(t) :
        /\ AllDigits(Take(t, m))
        /\ \/ m = Len(t) /\ m > 0
           \/ /\ m < Len(t)
              /\ t[m + 1] = 46
              /\ AllDigits(Drop(t, m + 1))
              /\ Len(t) > 1

\* e or E, an optional sign, digits
IsExponent(t) ==
    /\ Len(t) >= 2
    /\ t[1] \in {101, 69}
    /\ LET d == IF t[2] \in {43, 45} THEN Drop(t, 2) ELSE Tail(t)
       IN  d # <<>> /\ AllDigits(d)

\* The text of a decimal float: sign, mantissa, exponent.
IsFloatToken(tok) ==
    /\ tok # <<>>
    /\ LET body == IF tok[1] \in {43, 45} THEN Tail(tok) ELSE tok
       IN  \E m \in 1..Len(body) :
              /\ IsMantissa(Take(body, m))
              /\ (m = Len(body) \/ IsExponent(Drop(body, m)))

\* Whether the scanned token is a number of the target's type.
Parses ==
    IF Target.k = "float" THEN IsFloatToken(Scanned)
    ELSE /\ IsIntegerToken(Scanned)
         /\ InRange(Target.ty, TokenValue(Scanned))
         /\ (Signed[Target.ty] \/ Scanned[1] # 45)

\* from_bytes was asked for an integer of up to 64 bits or a float, and the
\* input is a numeric prefix, a token and a byte that ends it.
NumericInput ==
    /\ op = "input"
    /\ (Target.k = "float" \/ IntShape64(Target))
    /\ bytes # <<>>
    /\ bytes[1] \in NumericTags
    /\ Len(bytes) > 1 + TokenLen

\* C20 as the claim states it: a token that does not parse as the target's
\* type, out of range, malformed or empty, fails with UnexpectedByte whose
\* found is the first character of the token in the input, the byte after
\* the prefix.
C20_AsStated ==
    (NumericInput /\ ~Parses) =>
        /\ result.st = "Err"
        /\ result.err = UnexpectedByte("A valid integer string", bytes[2])

\* C20: a token that does not parse as the target's type fails with
\* UnexpectedByte whose found is the first character of the token, and the
\* NUL character when the token is empty; the cursor is right after the
\* token.  A token that parses never fails so.
C20_ParseFailureKind ==
    NumericInput =>
        IF ~Parses
        THEN /\ result.st = "Err"
             /\ result.err = UnexpectedByte("A valid integer string",
                                            IF Scanned = <<>> THEN 0 ELSE Scanned[1])
             /\ result.rest = Drop(bytes, 1 + TokenLen)
        ELSE result.st = "Err" => result.err.expected # "A valid integer string"

\* : CRLF, an empty token, was decoded into an i32: UnexpectedByte, found NUL.
C20_Witness ==
    /\ NumericInput
    /\ bytes = <<58, 13, 10>>
    /\ Target = TInt("i32")
    /\ result.st = "Err"
    /\ result.err.kind = "UnexpectedByte"
    /\ result.err.found = 0

-----------------------------------------------------------------------------
(* Simple strings                                                          *)

\* The prefix bytes whose text a String is read from up to the first CRLF:
\* SimpleString, SimpleError, Integer, BigNumber, Float.
SimpleTags == {43, 45, 58, 40, 44}

\* Whether CRLF stands anywhere in a byte string.
HasCRLF(s) == \E i \in 1..(Len(s) - 1) : s[i] = 13 /\ s[i + 1] = 10

\* A String is asked for and the input starts with one of those prefixes.
SimpleAsString ==
    /\ op = "input"
    /\ Target = TStr
    /\ bytes # <<>>
    /\ bytes[1] \in SimpleTags

\* C21: with a String asked for, a simple-family tag directly followed by
\* CRLF fails with UnexpectedEnd, and so does one with no CRLF anywhere after
\* it; a tag, a non-empty span and CRLF never fails so; the empty bulk string
\* $0 CRLF CRLF decodes to the empty string.
C21_SimpleStringNonEmpty ==
    /\ SimpleAsString =>
          IF ~HasCRLF(Tail(bytes)) \/ SubSeq(bytes, 2, 3) = <<13, 10>>
          THEN result.st = "Err" /\ result.err = Error("UnexpectedEnd")
          ELSE result.st = "Err" => result.err = Error("InvalidUtf8")
    /\ (op = "input" /\ Target = TStr /\ bytes = <<36, 48, 13, 10, 13, 10>>) =>
          result.st = "Ok" /\ result.val = <<>> /\ result.rest = <<>>

\* : CRLF, an Integer with nothing before CRLF, was decoded into a String:
\* UnexpectedEnd.
C21_Witness ==
    /\ SimpleAsString
    /\ bytes = <<58, 13, 10>>
    /\ result.st = "Err"
    /\ result.err.kind = "UnexpectedEnd"

-----------------------------------------------------------------------------
(* Chars                                                                   *)

\* C22 as the claim states it: to_bytes of a char succeeds, and from_bytes of
\* its output returns the char, whether its UTF-8 encoding is one byte (a) or
\* two to four (U+00E9, U+20AC, U+1F600).
C22_CharRoundTrip ==
    (shape # 0 /\ Encoded = TChar) =>
        /\ op = "to_bytes"   => ser.st = "Ok"
        /\ op = "from_bytes" => result.st = "Ok" /\ result.val = value

-----------------------------------------------------------------------------
(* Tags that are only decoded                                              *)

\* What from_bytes returns for the same target when the first byte of the
\* input is replaced by t.
Retagged(t) == from_bytes(Target, <<t>> \o Tail(bytes))

\* C23: for an input that starts with *, decoding a Vec or a tuple gives the
\* same value or the same error, with the same input left, when the * is
\* replaced by ~ or by >; for an input that starts with %, decoding a map, a
\* struct or an enum gives the same when the % is replaced by |.
C23_DecodeOnlyTags ==
    (op = "input" /\ bytes # <<>>) =>
        /\ (bytes[1] = 42 /\ Target.k \in {"seq", "iter", "tuple"}) =>
              Retagged(126) = result /\ Retagged(62) = result
        /\ (bytes[1] = 37 /\ Target.k \in {"map", "mapiter", "struct", "enum"}) =>
              Retagged(124) = result

\* *2 CRLF and two integers were decoded into a Vec<i32>, and the same input
\* under ~ and under > gives the same two integers.
C23_Witness ==
    /\ op = "input"
    /\ bytes = <<42, 50, 13, 10>> \o UnitInt(1) \o UnitInt(1)
    /\ Target = TSeq(i32)
    /\ result.st = "Ok"
    /\ Len(result.val) = 2
    /\ Retagged(126) = result
    /\ Retagged(62) = result

-----------------------------------------------------------------------------
(* The tags the encoder writes                                             *)

\* The prefix bytes of Integer, BigNumber, Float, BulkString, Null, Boolean,
\* Array and Map.
EmittedTags == {58, 40, 44, 36, 95, 35, 42, 37}

\* The first byte of every wire unit in a byte string, the units inside
\* arrays and maps included: after the header line of an array or a map come
\* its elements, one unit after the other.  -1 stands for bytes that are no
\* complete unit.
RECURSIVE UnitTags(_)
UnitTags(inp) ==
    IF inp = <<>> THEN {}
    ELSE Let(IF inp[1] \in SimpleTags \cup SeqTags \cup MapTags THEN AfterLine(Tail(inp))
             ELSE IF inp[1] \in BulkTags THEN AfterBulk(Tail(inp))
             ELSE IF inp[1] = 35 /\ Len(inp) >= 2 THEN AfterCRLF(Drop(inp, 2))
             ELSE IF inp[1] = 95 THEN AfterCRLF(Tail(inp))
             ELSE Malformed,
             LAMBDA rest :
                 {inp[1]} \cup (IF rest = Malformed THEN {-1} ELSE UnitTags(rest)))

-----------------------------------------------------------------------------
(* Booleans                                                                *)

\* C25: with a bool asked for, #t CRLF gives true and #f CRLF gives false,
\* with the cursor after the CRLF; a byte other than t and f right after #
\* fails with UnexpectedByte that names it; a first byte other than # fails;
\* true is encoded as #t CRLF and false as #f CRLF, nothing else.
C25_BooleanLiteral ==
    /\ (op = "input" /\ Target = TBool /\ bytes # <<>>) =>
          /\ bytes[1] # 35 => result.st = "Err" /\ result.val = NoVal
          /\ (bytes[1] = 35 /\ Len(bytes) >= 2 /\ bytes[2] \notin {116, 102}) =>
                /\ result.st = "Err"
                /\ result.err.kind = "UnexpectedByte"
                /\ result.err.found = bytes[2]
          /\ (Len(bytes) >= 4 /\ Take(bytes, 4) = <<35, 116, 13, 10>>) =>
                result.st = "Ok" /\ result.val = TRUE /\ result.rest = Drop(bytes, 4)
          /\ (Len(bytes) >= 4 /\ Take(bytes, 4) = <<35, 102, 13, 10>>) =>
                result.st = "Ok" /\ result.val = FALSE /\ result.rest = Drop(bytes, 4)
          /\ result.st = "Ok" => Take(bytes, 2) \in {<<35, 116>>, <<35, 102>>}
    /\ (op \in {"to_bytes", "to_string"} /\ Encoded = TBool) =>
          /\ ser.st = "Ok"
          /\ ser.out = IF value THEN <<35, 116, 13, 10>> ELSE <<35, 102, 13, 10>>

\* #x CRLF was decoded into a bool: UnexpectedByte, found x.
C25_Witness ==
    /\ op = "input"
    /\ Target = TBool
    /\ bytes = <<35, 120, 13, 10>>
    /\ result.st = "Err"
    /\ result.err.kind = "UnexpectedByte"
    /\ result.err.found = 120

-----------------------------------------------------------------------------
(* The registry                                                            *)

\* The bytes of + - : $ * _ # , ( ! = % | ~ >
PrefixBytes == {43, 45, 58, 36, 42, 95, 35, 44, 40, 33, 61, 37, 124, 126, 62}

\* C26: the registry has 15 kinds and 15 prefix bytes; to_prefix_bytes gives
\* each kind one of those bytes and no two kinds the same byte;
\* from_prefix_bytes of the byte of a kind gives the kind back; and
\* from_prefix_bytes gives None for exactly the bytes that are none of the 15.
C26_RegistryBijection ==
    /\ Cardinality(RespDataKind) = 15
    /\ Cardinality(PrefixBytes) = 15
    /\ op \in {"to_prefix_bytes", "from_prefix_of_kind"} =>
          /\ value \in RespDataKind
          /\ bytes[1] \in PrefixBytes
          /\ \A other \in RespDataKind \ {value} : to_prefix_bytes(other) # bytes[1]
    /\ op = "from_prefix_of_kind" => result.val = value
    /\ op = "from_prefix_bytes" =>
          /\ bytes[1] \notin PrefixBytes => result.val = "None"
          /\ bytes[1] \in PrefixBytes => result.val \in RespDataKind

\* The prefix of Push, >, was looked up and gave Push back.
C26_Witness ==
    /\ op = "from_prefix_of_kind"
    /\ value = "Push"
    /\ bytes = <<62>>
    /\ result.val = "Push"

-----------------------------------------------------------------------------
(* The accessor of a sequence or map, call by call                         *)

\* The count the accessor was created with, and the count it has consumed.
DeclaredCount == MagNat(access.length)
Consumed == access.current

\* The count the header of the input declares: the digit after the tag.
HeaderCount == bytes[2] - 48

\* C27: an accessor starts with the count its header declares and nothing
\* consumed; a next-element or next-key call made while consumed < count
\* adds exactly one to consumed, whether the element decodes or not; one made
\* when consumed = count returns None and leaves consumed and the input as
\* they were; a next-value call leaves consumed as it was; the count never
\* changes, and consumed never exceeds it.
C27_AccessorProtocol ==
    [][ /\ op' \in {"visit_seq", "visit_map"} =>
              /\ access'.current = 0
              /\ MagNat(access'.length) = bytes'[2] - 48
        /\ op' \in {"next_element", "next_key"} =>
              /\ access'.length = access.length
              /\ IF Consumed < DeclaredCount
                 THEN access'.current = Consumed + 1
                 ELSE /\ access'.current = Consumed
                      /\ result'.st = "Ok"
                      /\ result'.val = None
                      /\ result'.rest = result.rest
        /\ op' = "next_value" => access' = access
        /\ access'.current <= MagNat(access'.length)
      ]_vars

\* An accessor over *2 CRLF and three integers has handed out two of them,
\* and the next call returned None with the third still in the input.
C27_Witness ==
    /\ op = "next_element"
    /\ bytes = <<42, 50, 13, 10>> \o UnitInt(1) \o UnitInt(1) \o UnitInt(1)
    /\ HeaderCount = 2
    /\ DeclaredCount = HeaderCount
    /\ Consumed = DeclaredCount
    /\ result.st = "Ok"
    /\ result.val = None
    /\ result.rest = UnitInt(1)

-----------------------------------------------------------------------------
(* The decode cursor                                                        *)

IsSuffix(s, whole) == Len(s) <= Len(whole) /\ Drop(whole, Len(whole) - Len(s)) = s

\* Every position the cursor can have in an input: the input's suffixes.
Cursors(whole) == {Drop(whole, k) : k \in 0..Len(whole)}

\* One cursor operation of each kind started at the cursor position inp: each
\* leaves a suffix of inp.
Advances(inp) ==
    /\ IsSuffix(next_byte(inp).rest, inp)
    /\ IsSuffix(input_first(inp).rest, inp)
    /\ IsSuffix(expect_byte(inp, 36).rest, inp)
    /\ IsSuffix(expect_crlf(inp).rest, inp)
    /\ IsSuffix(expect_length(inp).rest, inp)
    /\ IsSuffix(parse_simple_string(inp).rest, inp)
    /\ IsSuffix(parse_bulk_string(inp).rest, inp)
    /\ IsSuffix(parse_string(inp).rest, inp)
    /\ IsSuffix(parse_number("i64", inp).rest, inp)

\* C28: the remaining input after a decode operation, successful or failing,
\* is a suffix of the remaining input before it, and the input bytes are not
\* modified: a whole decode leaves a suffix of its input, an accessor call
\* leaves a suffix of what the call before it left and the same input bytes,
\* and so does every cursor operation started at any position inside the
\* input (the cursor operations do not depend on the target shape: they are
\* run once for each input, with the decode of a bool).
C28_CursorOnlyAdvances ==
    [][ /\ op' \in {"input", "from_bytes", "from_str", "visit_seq", "visit_map"} =>
              IsSuffix(result'.rest, bytes')
        /\ (op' = "input" /\ Shapes[target'] = TBool) =>
              \A inp \in Cursors(bytes') : Advances(inp)
        /\ op' \in {"next_element", "next_key", "next_value"} =>
              /\ bytes' = bytes
              /\ IsSuffix(result'.rest, result.rest)
              /\ IsSuffix(result'.rest, bytes')
      ]_vars

\* A next-element call failed on the second element of *2 CRLF :1 CRLF $1 CRLF a CRLF
\* after consuming its tag: the cursor stands inside the input, past the
\* first element.
C28_Witness ==
    /\ op = "next_element"
    /\ result.st = "Err"
    /\ access.current = 2
    /\ result.rest # <<>>
    /\ Len(result.rest) < Len(bytes) - 8
    /\ IsSuffix(result.rest, bytes)

-----------------------------------------------------------------------------
(* The encode buffer                                                        *)

IsPrefix(s, whole) == Len(s) <= Len(whole) /\ Take(whole, Len(s)) = s

\* The operations of the encoder: whole encodes, and the calls of one encode.
EncodeOps ==
    {"to_bytes", "to_string", "serialize", "serialize_seq", "serialize_tuple_variant",
     "serialize_map", "serialize_element", "serialize_key", "serialize_value", "end"}

\* C29: the buffer before an encode operation (a scalar, an option, a variant,
\* the start of a sequence or map, an element, a key, a value) is a prefix of
\* the buffer after it, whether the operation succeeds or fails, and an end
\* call leaves the buffer as it was.
C29_BufferAppendOnly ==
    [][ /\ op' \in EncodeOps => IsPrefix(Output, ser'.out)
        /\ op' = "end" => (ser'.st = "Ok" /\ ser'.out = Output)
      ]_vars

\* After a first value, a sequence of two elements was started, both elements
\* were written and the sequence was ended: the buffer holds all of them.
C29_Witness ==
    /\ op = "end"
    /\ ser.st = "Ok"
    /\ Len(ser.out) > Len(B(<<"#", "t">>) \o CRLF \o Header("*", 2))
    /\ IsPrefix(B(<<"#", "t">>) \o CRLF \o Header("*", 2) \o B(<<"_">>) \o CRLF, ser.out)

-----------------------------------------------------------------------------
(* Input after the first complete value                                     *)

\* The shapes built from bool, integers, strings, unit, option, sequences,
\* maps, structs and enums.
RECURSIVE BuiltFromListed(_)
BuiltFromListed(T) ==
    CASE T.k \in {"bool", "int", "str", "unit"} -> TRUE
      [] T.k \in {"option", "seq", "iter"} -> BuiltFromListed(T.of)
      [] T.k = "tuple" -> \A i \in 1..Len(T.items) : BuiltFromListed(T.items[i])
      [] T.k \in {"map", "mapiter"} -> BuiltFromListed(T.key) /\ BuiltFromListed(T.val)
      [] T.k = "struct" -> \A i \in 1..Len(T.fields) : BuiltFromListed(T.fields[i].ty)
      [] T.k = "enum" ->
            \A i \in 1..Len(T.variants) :
               LET v == T.variants[i] IN
               IF v.kind = "unit" THEN TRUE
               ELSE IF v.kind = "newtype" THEN BuiltFromListed(v.ty)
               ELSE IF v.kind = "tuple"
                    THEN \A j \in 1..Len(v.ty) : BuiltFromListed(v.ty[j])
                    ELSE \A j \in 1..Len(v.ty) : BuiltFromListed(v.ty[j].ty)
      [] OTHER -> FALSE

\* Bytes that follow the value: text, a line end, half a line end, a digit,
\* a whole unit, the start of a unit, a byte that is no UTF-8.
Trailers ==
    {B(<<"a">>), CRLF, <<13>>, <<10>>, B(<<"1">>), UnitInt(1), B(<<"$", "5">>), <<255>>}

\* C30: when from_bytes(b) returns Ok(v) for a shape built from bool,
\* integers, strings, unit, option, sequences, maps, structs and enums,
\* from_bytes(b followed by t) returns Ok(v) as well, and leaves t after what
\* the first decode left.
C30_TrailingInputIgnored ==
    (op = "input" /\ result.st = "Ok" /\ BuiltFromListed(Target)) =>
        \A t \in Trailers :
           LET r == from_bytes(Target, bytes \o t) IN
           /\ r.st = "Ok"
           /\ r.val = result.val
           /\ r.rest = result.rest \o t

\* *1 CRLF :1 CRLF :1 CRLF :1 CRLF decoded as a sequence of integers: one element, and
\* two units left in the input.
C30_Witness ==
    /\ op = "input"
    /\ Target = TSeq(i32)
    /\ bytes = Header("*", 1) \o UnitInt(1) \o UnitInt(1) \o UnitInt(1)
    /\ result.st = "Ok"
    /\ Len(result.val) = 1
    /\ result.rest = UnitInt(1) \o UnitInt(1)
    /\ from_bytes(Target, bytes \o B(<<"a">>)).st = "Ok"

=============================================================================
